---- MODULE Spec2Model ----
(***************************************************************************)
(* Model of the course-generation pipeline of coursebuild.it:              *)
(*   - the analyze-video-smart API route (request validation, cache check, *)
(*     course creation, progress upserts, hand-off to the init function),  *)
(*   - the init-segmented-processing edge function (duration lookup,       *)
(*     segment splitting, short-segment merging, question budgeting),      *)
(*   - the course rating API route.                                        *)
(* Text (URLs, ISO 8601 durations) is modelled as sequences of one-         *)
(* character strings so that the regular expressions of the code are       *)
(* computed, not assumed.                                                  *)
(***************************************************************************)
EXTENDS Integers, Sequences, FiniteSets, Bags, TLC

(***************************************************************************)
(* Bounds of the model.                                                    *)
(***************************************************************************)
\* video durations 0..MaxVideoSeconds are enumerated second by second
MaxVideoSeconds == 100
\* segment_duration values MinSegmentSeconds..MaxSegmentSeconds are enumerated
MinSegmentSeconds == 17
MaxSegmentSeconds == 23
\* max_questions_per_segment values 0..MaxQuestionsBound are enumerated
MaxQuestionsBound == 2

(***************************************************************************)
(* Program constants.                                                      *)
(***************************************************************************)
DefaultDuration == 1800
ShortSegmentLimit == 20
SecondsPerQuestion == 60
DefaultSegmentDuration == 300
DefaultMaxQuestions == 5

(***************************************************************************)
(* Text helpers.                                                           *)
(***************************************************************************)
DigitChars == <<"0", "1", "2", "3", "4", "5", "6", "7", "8", "9">>

IsDigit(c) == \E d \in 1..10 : DigitChars[d] = c

DigitValue(c) == (CHOOSE d \in 1..10 : DigitChars[d] = c) - 1

\* parseInt(s, 10) of a non-empty run of decimal digits
RECURSIVE ParseInt(_)
ParseInt(s) ==
  IF Len(s) = 0 THEN 0
  ELSE 10 * ParseInt(SubSeq(s, 1, Len(s) - 1)) + DigitValue(s[Len(s)])

\* decimal digits of n >= 0
RECURSIVE IntToText(_)
IntToText(n) ==
  IF n < 10 THEN <<DigitChars[n + 1]>>
  ELSE IntToText(n \div 10) \o <<DigitChars[(n % 10) + 1]>>

\* the literal lit occurs in s at position p
MatchAt(s, lit, p) ==
  /\ p >= 1
  /\ p + Len(lit) - 1 <= Len(s)
  /\ \A k \in 1..Len(lit) : s[p + k - 1] = lit[k]

\* length of the longest run of decimal digits of s from position p on (\d+)
RECURSIVE DigitRunLength(_, _)
DigitRunLength(s, p) ==
  IF p <= Len(s) /\ IsDigit(s[p]) THEN 1 + DigitRunLength(s, p + 1) ELSE 0

Min(a, b) == IF a <= b THEN a ELSE b
Max(a, b) == IF a >= b THEN a ELSE b

\* Math.ceil(a / b) for a >= 0 and b > 0
CeilDiv(a, b) == IF a % b = 0 THEN a \div b ELSE (a \div b) + 1

RECURSIVE SumSeq(_)
SumSeq(s) == IF Len(s) = 0 THEN 0 ELSE s[1] + SumSeq(Tail(s))

(***************************************************************************)
(* parseISO8601Duration: /PT(?:(\d+)H)?(?:(\d+)M)?(?:(\d+)S)?/             *)
(***************************************************************************)
LitPT == <<"P", "T">>

\* one optional group (\d+)<unit> tried at position p
DurationGroup(s, p, unit) ==
  LET n == DigitRunLength(s, p)
  IN  IF n >= 1 /\ p + n <= Len(s) /\ s[p + n] = unit
      THEN [val |-> ParseInt(SubSeq(s, p, p + n - 1)), next |-> p + n + 1]
      ELSE [val |-> 0, next |-> p]

parseISO8601Duration(duration) ==
  IF \A p \in 1..Len(duration) : ~MatchAt(duration, LitPT, p)
  THEN 0
  ELSE LET p0 == CHOOSE p \in 1..Len(duration) :
                   /\ MatchAt(duration, LitPT, p)
                   /\ \A q \in 1..(p - 1) : ~MatchAt(duration, LitPT, q)
           h == DurationGroup(duration, p0 + 2, "H")
           m == DurationGroup(duration, h.next, "M")
           sec == DurationGroup(duration, m.next, "S")
       IN  h.val * 3600 + m.val * 60 + sec.val

(***************************************************************************)
(* YouTube URLs.                                                           *)
(***************************************************************************)
LitWatch == <<"y", "o", "u", "t", "u", "b", "e", ".", "c", "o", "m", "/", "w", "a", "t", "c", "h", "?", "v", "=">>
LitShort == <<"y", "o", "u", "t", "u", ".", "b", "e", "/">>
LitEmbed == <<"y", "o", "u", "t", "u", "b", "e", ".", "c", "o", "m", "/", "e", "m", "b", "e", "d", "/">>
LitWatchQ == <<"y", "o", "u", "t", "u", "b", "e", ".", "c", "o", "m", "/", "w", "a", "t", "c", "h", "?">>
LitV == <<"v", "=">>
CanonicalPrefix == <<"h", "t", "t", "p", "s", ":", "/", "/", "w", "w", "w", ".", "y", "o", "u", "t", "u", "b", "e", ".", "c", "o", "m", "/", "w", "a", "t", "c", "h", "?", "v", "=">>

\* [^&\n?#]
IsIdChar(c) == c \notin {"&", "\n", "?", "#"}

\* length of the longest run of [^&\n?#] characters of s from position p on
RECURSIVE IdRunLength(_, _)
IdRunLength(s, p) ==
  IF p <= Len(s) /\ IsIdChar(s[p]) THEN 1 + IdRunLength(s, p + 1) ELSE 0

\* (?:youtube\.com\/watch\?v=|youtu\.be\/|youtube\.com\/embed\/)([^&\n?#]+)
\* matches s at position p: the position of the capture group, 0 if no match
IdPatternAt(s, p) ==
  LET after == IF MatchAt(s, LitWatch, p) THEN p + Len(LitWatch)
               ELSE IF MatchAt(s, LitShort, p) THEN p + Len(LitShort)
               ELSE IF MatchAt(s, LitEmbed, p) THEN p + Len(LitEmbed)
               ELSE 0
  IN  IF after > 0 /\ IdRunLength(s, after) >= 1 THEN after ELSE 0

\* the line terminators a "." of a regular expression does not match; of the
\* four (\n, \r, U+2028, U+2029) the two that a string of the model can hold
LineTerminators == {"\n", "\r"}

\* youtube\.com\/watch\?.*v=([^&\n?#]+) matches s at position p
LatePatternAt(s, p) ==
  /\ MatchAt(s, LitWatchQ, p)
  /\ \E q \in (p + Len(LitWatchQ))..Len(s) :
       /\ MatchAt(s, LitV, q)
       /\ IdRunLength(s, q + Len(LitV)) >= 1
       /\ \A k \in (p + Len(LitWatchQ))..(q - 1) : s[k] \notin LineTerminators

\* the missing video id (null)
NoVideoId == <<>>

extractVideoId(url) ==
  IF \A p \in 1..Len(url) : IdPatternAt(url, p) = 0
  THEN NoVideoId
  ELSE LET p0 == CHOOSE p \in 1..Len(url) :
                   /\ IdPatternAt(url, p) # 0
                   /\ \A q \in 1..(p - 1) : IdPatternAt(url, q) = 0
           from == IdPatternAt(url, p0)
       IN  SubSeq(url, from, from + IdRunLength(url, from) - 1)

\* extractVideoId of @/utils/youtube, used by the analyze route
utilsExtractVideoId(url) == extractVideoId(url)

\* a check that only asks for some text
isNonEmptyUrl(url) == Len(url) > 0

isValidYouTubeUrl(url) ==
  \/ \E p \in 1..Len(url) : IdPatternAt(url, p) # 0
  \/ \E p \in 1..Len(url) : LatePatternAt(url, p)

sanitizeYouTubeUrl(url) ==
  LET videoId == utilsExtractVideoId(url)
  IN  IF videoId = NoVideoId THEN url ELSE CanonicalPrefix \o videoId

(***************************************************************************)
(* The YouTube Data API answer for a video: no answer (no API key, HTTP    *)
(* error, video not found, network failure) or contentDetails.duration.    *)
(***************************************************************************)
NoAnswer == [found |-> FALSE, duration |-> <<>>]
Answer(text) == [found |-> TRUE, duration |-> text]

\* the ISO 8601 text the API gives for a video of n seconds (n < 86400);
\* a live or upcoming video has "P0D"
ISODuration(n) ==
  IF n = 0 THEN <<"P", "0", "D">>
  ELSE LET h == n \div 3600
           m == (n % 3600) \div 60
           s == n % 60
       IN  LitPT
           \o (IF h > 0 THEN IntToText(h) \o <<"H">> ELSE <<>>)
           \o (IF m > 0 THEN IntToText(m) \o <<"M">> ELSE <<>>)
           \o (IF s > 0 THEN IntToText(s) \o <<"S">> ELSE <<>>)

\* getVideoDuration: null or the parsed number of seconds
getVideoDuration(answer) ==
  IF ~answer.found THEN [null |-> TRUE, seconds |-> 0]
  ELSE [null |-> FALSE, seconds |-> parseISO8601Duration(answer.duration)]

\* JavaScript truthiness of a number-or-null
Truthy(d) == ~d.null /\ d.seconds # 0

(***************************************************************************)
(* Segment splitting of init-segmented-processing.                         *)
(***************************************************************************)
\* videoDuration || 1800
TotalDuration(videoDuration) ==
  IF Truthy(videoDuration) THEN videoDuration.seconds ELSE DefaultDuration

\* a comparison that also splits a video exactly as long as segment_duration
\* SEGMENT_THRESHOLD of analyze-video-smart.ts: declared, and used nowhere
SEGMENT_THRESHOLD == 600

\* a split decided by the threshold instead of segment_duration
ShouldSegmentOverThreshold(videoDuration, segment_duration) ==
  IF Truthy(videoDuration) THEN videoDuration.seconds > SEGMENT_THRESHOLD ELSE TRUE

ShouldSegmentInclusive(videoDuration, segment_duration) ==
  IF Truthy(videoDuration) THEN videoDuration.seconds >= segment_duration ELSE TRUE

ShouldSegment(videoDuration, segment_duration) ==
  IF Truthy(videoDuration) THEN videoDuration.seconds > segment_duration ELSE TRUE

\* segments whose end is not clipped to the total duration
RawSegmentsUnclipped(totalDuration, segment_duration) ==
  [i \in 1..CeilDiv(totalDuration, segment_duration) |->
     [startTime |-> (i - 1) * segment_duration,
      endTime |-> i * segment_duration]]

\* the initial segments: i * segment_duration .. min((i+1) * segment_duration, total)
RawSegments(totalDuration, segment_duration) ==
  [i \in 1..CeilDiv(totalDuration, segment_duration) |->
     [startTime |-> (i - 1) * segment_duration,
      endTime |-> Min(i * segment_duration, totalDuration)]]

\* no merge of a short last segment
MergeNothing(rawSegments, totalDuration) == rawSegments

\* a last segment shorter than 20 seconds is merged into the one before it
MergeShortLast(rawSegments, totalDuration) ==
  IF Len(rawSegments) > 1
     /\ rawSegments[Len(rawSegments)].endTime
          - rawSegments[Len(rawSegments)].startTime < ShortSegmentLimit
  THEN [i \in 1..(Len(rawSegments) - 1) |->
          IF i = Len(rawSegments) - 1
          THEN [rawSegments[i] EXCEPT !.endTime = totalDuration]
          ELSE rawSegments[i]]
  ELSE rawSegments

\* a count that is not capped by max_questions_per_segment
ExpectedQuestionsUncapped(seg, max_questions_per_segment) ==
  CeilDiv(seg.endTime - seg.startTime, SecondsPerQuestion)

ExpectedQuestions(seg, max_questions_per_segment) ==
  Min(CeilDiv(seg.endTime - seg.startTime, SecondsPerQuestion), max_questions_per_segment)

\* the rows inserted into course_segments
SegmentRows(course_id, rawSegments) ==
  [i \in 1..Len(rawSegments) |->
     [course_id |-> course_id,
      segment_index |-> i - 1,
      start_time |-> rawSegments[i].startTime,
      end_time |-> rawSegments[i].endTime,
      status |-> "pending"]]

\* the one row of a video that is not split
SingleSegmentRows(course_id, totalDuration) ==
  <<[course_id |-> course_id, segment_index |-> 0, start_time |-> 0,
     end_time |-> totalDuration, status |-> "pending"]>>

(***************************************************************************)
(* State.                                                                  *)
(***************************************************************************)
VARIABLES
  courses,            \* table courses: row i has id i, rows in created_at order
  questions,          \* ids of the courses that have at least one question
  course_segments,    \* table course_segments, in insertion order
  progress,           \* table quiz_generation_progress, in insertion order
  orchestrated,       \* ids of the courses handed to orchestrate-segment-processing
  req,                \* the analyze-video-smart requests
  inv,                \* the init-segmented-processing invocations
  ratings,            \* table user_course_ratings, a set of rows
  ratingReq,          \* the rating requests being handled
  page,               \* the state of the course player page
  progressKeyUnique   \* quiz_generation_progress has a unique constraint on
                      \* (course_id, session_id); the schema is not part of the
                      \* sources, so both databases are considered

vars == <<courses, questions, course_segments, progress, orchestrated, req, inv,
          ratings, ratingReq, page, progressKeyUnique>>

dbVars == <<courses, questions, course_segments, progress, orchestrated>>

\* number of analyze requests; request r calls the init function at most once,
\* and inv[r] is that invocation
MaxRequests == 2
\* number of sessions
MaxSessions == 1

\* number of rating requests handled at a time
MaxRatingRequests == 2
RatingRequests == 1..MaxRatingRequests

Requests == 1..MaxRequests
Invocations == Requests
Sessions == 1..MaxSessions

\* progress values are kept in hundredths: 0.0, 0.05, 0.1
ProgressStart == 0
ProgressFailed == 5
ProgressRunning == 10

(***************************************************************************)
(* Tables.                                                                 *)
(***************************************************************************)
\* a course record that is published from the start
NewPublishedCourse(url) ==
  [youtube_url |-> url, published |-> TRUE, is_segmented |-> FALSE,
   total_segments |-> 0, segment_duration |-> 0, total_duration |-> 0]

NewCourse(url) ==
  [youtube_url |-> url, published |-> FALSE, is_segmented |-> FALSE,
   total_segments |-> 0, segment_duration |-> 0, total_duration |-> 0]

\* .update(fields).eq('id', course_id) on courses: no row, no change
UpdateCourseSegmentation(table, course_id, shouldSegment, totalDuration, segment_duration) ==
  IF course_id \in 1..Len(table)
  THEN [table EXCEPT ![course_id] =
          [@ EXCEPT !.is_segmented = shouldSegment,
                    !.total_segments = IF shouldSegment
                                       THEN CeilDiv(totalDuration, segment_duration)
                                       ELSE 1,
                    !.segment_duration = segment_duration,
                    !.total_duration = Max(1, totalDuration)]]
  ELSE table

UpdateCourseSegmentCount(table, course_id, count) ==
  IF course_id \in 1..Len(table)
  THEN [table EXCEPT ![course_id] = [@ EXCEPT !.total_segments = count]]
  ELSE table

ProgressRow(course_id, session_id, stage, overall_progress) ==
  [course_id |-> course_id, session_id |-> session_id, stage |-> stage,
   overall_progress |-> overall_progress]

SameKey(a, b) == a.course_id = b.course_id /\ a.session_id = b.session_id

\* the table has a row with the key (course_id, session_id) of row
ProgressKeyTaken(table, row) == \E k \in 1..Len(table) : SameKey(table[k], row)

\* an insert instead of the upsert: with the unique constraint it is rejected
\* when the key has a row, without the constraint it adds a row
PlainInsertProgress(table, row) ==
  IF progressKeyUnique /\ ProgressKeyTaken(table, row) THEN table ELSE Append(table, row)

\* a write that overwrites the row of the key
OverwriteProgress(table, row) ==
  IF ProgressKeyTaken(table, row)
  THEN [k \in 1..Len(table) |-> IF SameKey(table[k], row) THEN row ELSE table[k]]
  ELSE Append(table, row)

\* an upsert that leaves an existing row of the key alone (ignoreDuplicates)
KeepProgress(table, row) ==
  IF ~progressKeyUnique \/ ProgressKeyTaken(table, row) THEN table ELSE Append(table, row)

\* .upsert(row, { onConflict: 'course_id,session_id' }): INSERT ... ON CONFLICT
\* (course_id, session_id) DO UPDATE. The database rejects the statement when
\* the columns named have no unique constraint; with the constraint the row
\* of the key is replaced, or the row is added when the key has none
UpsertProgress(table, row) ==
  IF ~progressKeyUnique THEN table
  ELSE IF ProgressKeyTaken(table, row)
  THEN [k \in 1..Len(table) |-> IF SameKey(table[k], row) THEN row ELSE table[k]]
  ELSE Append(table, row)

\* .insert(row): with the unique constraint an insert for a key that has a
\* row is rejected, and the caller does not look at the error; without the
\* constraint the row is added
InsertProgress(table, row) ==
  IF progressKeyUnique /\ ProgressKeyTaken(table, row) THEN table ELSE Append(table, row)

(***************************************************************************)
(* init-segmented-processing.                                              *)
(***************************************************************************)
NoResponse == [status |-> 0, success |-> FALSE, segmented |-> FALSE,
               total_segments |-> 0, segments |-> <<>>]

IdleInvocation ==
  [pc |-> "idle", caller |-> 0,
   course_id |-> 0, youtube_url |-> <<>>, max_questions_per_segment |-> 0,
   segment_duration |-> 0, session_id |-> 0, answer |-> NoAnswer,
   videoDuration |-> [null |-> TRUE, seconds |-> 0],
   totalDuration |-> 0, shouldSegment |-> FALSE, totalSegments |-> 0,
   createdSegments |-> <<>>, expectedQuestions |-> <<>>,
   totalExpectedQuestions |-> 0, res |-> NoResponse]

InitBody(course_id, youtube_url, max_questions_per_segment, segment_duration, session_id) ==
  [course_id |-> course_id, youtube_url |-> youtube_url,
   max_questions_per_segment |-> max_questions_per_segment,
   segment_duration |-> segment_duration, session_id |-> session_id]

\* the request arrives: the body is destructured
StartInvocation(i, caller, body, answer) ==
  [inv EXCEPT ![i] =
     [IdleInvocation EXCEPT
        !.pc = "begin", !.caller = caller,
        !.course_id = body.course_id, !.youtube_url = body.youtube_url,
        !.max_questions_per_segment = body.max_questions_per_segment,
        !.segment_duration = body.segment_duration,
        !.session_id = body.session_id, !.answer = answer]]

\* the catch block: 500 { success: false }
InitError(i) ==
  [inv EXCEPT ![i].pc = "done",
              ![i].res = [NoResponse EXCEPT !.status = 500]]

\* video id, duration, shouldSegment, first course update (lines 86-142);
\* Faults is the set of outcomes the database calls may have (TRUE: an error)
InitBegin(i, Faults) ==
  /\ inv[i].pc = "begin"
  /\ UNCHANGED <<questions, course_segments, progress, orchestrated, req,
                 ratings, ratingReq, page, progressKeyUnique>>
  /\ IF extractVideoId(inv[i].youtube_url) = NoVideoId
     THEN /\ inv' = InitError(i)
          /\ UNCHANGED courses
     ELSE LET videoDuration == getVideoDuration(inv[i].answer)
              totalDuration == TotalDuration(videoDuration)
              shouldSegment == ShouldSegment(videoDuration, inv[i].segment_duration)
          IN  \E courseUpdateError \in Faults :
                IF courseUpdateError
                THEN /\ inv' = InitError(i)
                     /\ UNCHANGED courses
                ELSE /\ courses' = UpdateCourseSegmentation(courses, inv[i].course_id,
                                     shouldSegment, totalDuration, inv[i].segment_duration)
                     /\ inv' = [inv EXCEPT ![i].pc = "segments",
                                           ![i].videoDuration = videoDuration,
                                           ![i].totalDuration = totalDuration,
                                           ![i].shouldSegment = shouldSegment]

\* the segments of the invocation, as inserted
PlannedSegments(i) ==
  IF inv[i].shouldSegment
  THEN MergeShortLast(RawSegments(inv[i].totalDuration, inv[i].segment_duration),
                      inv[i].totalDuration)
  ELSE <<[startTime |-> 0, endTime |-> inv[i].totalDuration]>>

\* where the handler continues once the segments and the count are stored:
\* `if (session_id)` awaits the progress insert, otherwise the orchestrator
\* is called next
AfterSegments(i) == IF inv[i].session_id # 0 THEN "progress" ELSE "orchestrate"

\* the segment rows are computed and inserted (lines 144-165 and 237-295)
InitCreateSegments(i, Faults) ==
  /\ inv[i].pc = "segments"
  /\ UNCHANGED <<courses, questions, progress, orchestrated, req, ratings,
                 ratingReq, page, progressKeyUnique>>
  /\ LET planned == PlannedSegments(i)
         rows == IF inv[i].shouldSegment
                 THEN SegmentRows(inv[i].course_id, planned)
                 ELSE SingleSegmentRows(inv[i].course_id, inv[i].totalDuration)
         expected == [k \in 1..Len(planned) |->
                        ExpectedQuestions(planned[k], inv[i].max_questions_per_segment)]
     IN  \E segmentsError \in Faults :
           IF segmentsError
           THEN /\ inv' = InitError(i)
                /\ UNCHANGED course_segments
           ELSE /\ course_segments' = course_segments \o rows
                /\ inv' = [inv EXCEPT
                     ![i].pc = IF inv[i].shouldSegment THEN "count"
                               ELSE AfterSegments(i),
                     ![i].totalSegments = IF inv[i].shouldSegment
                                          THEN CeilDiv(inv[i].totalDuration,
                                                       inv[i].segment_duration)
                                          ELSE 1,
                     ![i].createdSegments = rows,
                     ![i].expectedQuestions = IF inv[i].shouldSegment
                                              THEN expected ELSE <<>>,
                     ![i].totalExpectedQuestions = IF inv[i].shouldSegment
                                                   THEN SumSeq(expected) ELSE 0]

\* the course gets the number of rows created; an error is only logged
\* (lines 300-310)
InitUpdateSegmentCount(i, Faults) ==
  /\ inv[i].pc = "count"
  /\ UNCHANGED <<questions, course_segments, progress, orchestrated, req,
                 ratings, ratingReq, page, progressKeyUnique>>
  /\ inv' = [inv EXCEPT ![i].pc = AfterSegments(i)]
  /\ \E updateSegmentCountError \in Faults :
       IF updateSegmentCountError
       THEN UNCHANGED courses
       ELSE courses' = UpdateCourseSegmentCount(courses, inv[i].course_id,
                                               Len(inv[i].createdSegments))

\* if (session_id) the 'planning' progress row is inserted; the result of the
\* insert is not looked at (lines 169-186 and 312-331)
InitTrackProgress(i, Faults) ==
  /\ inv[i].pc = "progress"
  /\ UNCHANGED <<courses, questions, course_segments, orchestrated, req,
                 ratings, ratingReq, page, progressKeyUnique>>
  /\ inv' = [inv EXCEPT ![i].pc = "orchestrate"]
  /\ \E progressError \in Faults :
       IF progressError
       THEN UNCHANGED progress
       ELSE progress' = InsertProgress(progress,
                          ProgressRow(inv[i].course_id, inv[i].session_id,
                                      "planning", ProgressStart))

\* orchestrate-segment-processing is called for the course; an answer that
\* is not ok is thrown (lines 189-213 and 333-355)
InitTriggerOrchestrator(i, Faults) ==
  /\ inv[i].pc = "orchestrate"
  /\ UNCHANGED <<courses, questions, course_segments, progress, req,
                 ratings, ratingReq, page, progressKeyUnique>>
  /\ \E orchestratorError \in Faults :
       IF orchestratorError
       THEN /\ inv' = InitError(i)
            /\ UNCHANGED orchestrated
       ELSE /\ orchestrated' = orchestrated \cup {inv[i].course_id}
            /\ inv' = [inv EXCEPT ![i].pc = "respond"]

\* the body of the orchestrator's answer is read (lines 211 and 354): a body
\* that is not JSON is thrown to the catch block, after the orchestrator was
\* triggered; otherwise the response is sent (lines 214-235 and 357-377)
InitRespond(i, Faults) ==
  /\ inv[i].pc = "respond"
  /\ UNCHANGED <<courses, questions, course_segments, progress, orchestrated,
                 req, ratings, ratingReq, page, progressKeyUnique>>
  /\ \E jsonError \in Faults :
       IF jsonError
       THEN inv' = InitError(i)
       ELSE inv' = [inv EXCEPT
              ![i].pc = "done",
              ![i].res = [status |-> 200, success |-> TRUE,
                          segmented |-> inv[i].shouldSegment,
                          total_segments |-> IF inv[i].shouldSegment
                                             THEN Len(inv[i].createdSegments)
                                             ELSE 1,
                          segments |-> IF inv[i].shouldSegment
                                       THEN [k \in 1..Len(inv[i].createdSegments) |->
                                               [index |-> inv[i].createdSegments[k].segment_index,
                                                start_time |-> inv[i].createdSegments[k].start_time,
                                                end_time |-> inv[i].createdSegments[k].end_time]]
                                       ELSE <<[index |-> 0, start_time |-> 0,
                                               end_time |-> inv[i].totalDuration]>>]]

(***************************************************************************)
(* Inputs.                                                                 *)
(***************************************************************************)
UrlShortA == <<"y", "o", "u", "t", "u", ".", "b", "e", "/", "a", "1">>
UrlWatchA == <<"h", "t", "t", "p", "s", ":", "/", "/", "w", "w", "w", ".", "y", "o", "u", "t", "u", "b", "e", ".", "c", "o", "m", "/", "w", "a", "t", "c", "h", "?", "v", "=", "a", "1">>
UrlWatchAT == <<"h", "t", "t", "p", "s", ":", "/", "/", "w", "w", "w", ".", "y", "o", "u", "t", "u", "b", "e", ".", "c", "o", "m", "/", "w", "a", "t", "c", "h", "?", "v", "=", "a", "1", "&", "t", "=", "9">>
UrlLateV == <<"y", "o", "u", "t", "u", "b", "e", ".", "c", "o", "m", "/", "w", "a", "t", "c", "h", "?", "x", "=", "1", "&", "v", "=", "b", "2">>
\* a carriage return between "watch?" and "v="
UrlLateCR == <<"y", "o", "u", "t", "u", "b", "e", ".", "c", "o", "m", "/", "w", "a", "t", "c", "h", "?", "x", "=", "1", "\r", "v", "=", "b", "2">>
UrlOther == <<"h", "t", "t", "p", "s", ":", "/", "/", "v", "i", "m", "e", "o", ".", "c", "o", "m", "/", "1">>
\* a video longer than a day, and a text without any number
TextOverADay == <<"P", "1", "D", "T", "1", "H">>
TextNoDigits == <<"P", "T", "X", "S">>

UrlShortC == <<"y", "o", "u", "t", "u", ".", "b", "e", "/", "c", "3">>
IdA == <<"a", "1">>
IdC == <<"c", "3">>

\* the videos of the pipeline runs: a1 is split and its last piece merged, c3 is
\* shorter than segment_duration, any other video is unknown to the API
LongVideoLength == 610
ShortVideoLength == 200

VideoAnswer(url) ==
  IF extractVideoId(url) = IdA THEN Answer(ISODuration(LongVideoLength))
  ELSE IF extractVideoId(url) = IdC THEN Answer(ISODuration(ShortVideoLength))
  ELSE NoAnswer

\* the URLs of the valid requests of the pipeline runs
PipelineUrls == {UrlWatchAT, UrlShortA, UrlShortC, UrlLateV}

\* the inputs of the segmentation runs: every video of 0..MaxVideoSeconds
\* seconds with every segment_duration of MinSegmentSeconds..MaxSegmentSeconds,
\* and longer videos (and missing or unreadable durations) with longer
\* segment_duration values
ShortVideoSeconds == 0..MaxVideoSeconds
ShortSegmentDurations == MinSegmentSeconds..MaxSegmentSeconds
LongVideoSeconds ==
  {59, 60, 61, 119, 120, 121, 300, 310, 319, 320, 321, SEGMENT_THRESHOLD, 601, 3725}
LongSegmentDurations == {60, 61, DefaultSegmentDuration, 2000}

QuestionLimits == (0..MaxQuestionsBound) \cup {DefaultMaxQuestions}

SegInputs ==
  {[answer |-> Answer(ISODuration(n)), segment_duration |-> d] :
     n \in ShortVideoSeconds, d \in ShortSegmentDurations}
  \cup
  {[answer |-> a, segment_duration |-> d] :
     a \in {NoAnswer, Answer(TextOverADay), Answer(TextNoDigits)}
            \cup {Answer(ISODuration(n)) : n \in LongVideoSeconds},
     d \in LongSegmentDurations}

(***************************************************************************)
(* The segmentation runs: init-segmented-processing alone, invoked once    *)
(* for an existing course, over all the inputs above.                      *)
(***************************************************************************)
NoAnalyzeResponse ==
  [status |-> 0, success |-> FALSE, cached |-> FALSE, segmented |-> FALSE,
   background_processing |-> FALSE, course_id |-> 0, total_segments |-> 0]

IdleRequest ==
  [pc |-> "idle", method |-> "POST", course_id |-> 0, youtube_url |-> <<>>,
   session_id |-> 0, useCache |-> TRUE,
   segment_duration |-> DefaultSegmentDuration, max_questions |-> DefaultMaxQuestions,
   cid |-> 0, invId |-> 0, res |-> NoAnalyzeResponse,
   \* the courses of the cache check that have not been asked for questions
   existingCourses |-> <<>>,
   \* the questions table when the cache check began, and whether one of its
   \* queries has failed
   questionsThen |-> {}, cacheFailed |-> FALSE,
   \* what the call of the init function gave: "answer", "abort" or "error"
   got |-> "none",
   \* the progress writes, the database writes, the course inserts and the
   \* init calls of the request so far
   writes |-> <<>>, dbWrites |-> 0, courseInserts |-> 0, initCalls |-> 0,
   \* for each progress write of the request, whether the database rejected it
   rejected |-> <<>>]

(***************************************************************************)
(* The rating endpoint (pages/api/courses/[id]/rating.ts): the values a    *)
(* JSON body can carry in `rating`, and a rating request.                  *)
(***************************************************************************)
\* a number is kept in halves (twice its value), so 2.5 is 5 and 3 is 6
JsUndefined == [kind |-> "undefined", twice |-> 0, text |-> <<>>]
JsNull == [kind |-> "null", twice |-> 0, text |-> <<>>]
JsNumber(twice) == [kind |-> "number", twice |-> twice, text |-> <<>>]
JsString(text) == [kind |-> "string", twice |-> 0, text |-> text]
JsBoolean(b) == [kind |-> "boolean", twice |-> IF b THEN 2 ELSE 0, text |-> <<>>]

\* !v is true for undefined, null, 0, "" and false
Falsy(v) ==
  \/ v.kind \in {"undefined", "null"}
  \/ v.kind = "number" /\ v.twice = 0
  \/ v.kind = "string" /\ v.text = <<>>
  \/ v.kind = "boolean" /\ v.twice = 0

\* the number a comparison converts its operand to: undefined and a text
\* that is no numeral give NaN, null and "" give 0, true gives 1; the texts
\* considered are runs of digits or hold a character no numeral has
NotANumber == [nan |-> TRUE, twice |-> 0]
ToNumber(v) ==
  CASE v.kind = "undefined" -> NotANumber
    [] v.kind = "string" ->
         IF v.text = <<>> THEN [nan |-> FALSE, twice |-> 0]
         ELSE IF DigitRunLength(v.text, 1) = Len(v.text)
              THEN [nan |-> FALSE, twice |-> 2 * ParseInt(v.text)]
              ELSE NotANumber
    [] OTHER -> [nan |-> FALSE, twice |-> v.twice]

\* v < n and v > n for an integer n; a comparison with NaN is false
JsLess(v, n) == ~ToNumber(v).nan /\ ToNumber(v).twice < 2 * n
JsGreater(v, n) == ~ToNumber(v).nan /\ ToNumber(v).twice > 2 * n

\* Number.isInteger(v): no conversion, only a number without a fraction
NumberIsInteger(v) == v.kind = "number" /\ v.twice % 2 = 0

\* the Authorization header: none, or a scheme and a token
\* a token is the number of the user it was issued to, 0 when it resolves to
\* no user
NoHeader == [scheme |-> "none", token |-> 0]
Bearer(token) == [scheme |-> "Bearer", token |-> token]

\* the answer: the stored rating of a POST, and the statistics if there are any
NoRatingResponse ==
  [status |-> 0, success |-> FALSE, rating |-> JsUndefined,
   hasStats |-> FALSE, total_ratings |-> 0]

IdleRatingRequest ==
  [pc |-> "idle", method |-> "none", courseId |-> 0, rating |-> JsUndefined,
   context |-> "none", authorization |-> NoHeader, res |-> NoRatingResponse,
   \* the user the token resolved to
   userId |-> 0,
   \* the call that failed while the request was handled, if any
   fault |-> "none"]

(***************************************************************************)
(* The course player page (pages/course/[id].tsx): the React state the     *)
(* question overlay depends on.  Question indexes start at 0 as in the     *)
(* page; questions[i + 1] is the question of index i.                      *)
(***************************************************************************)
\* a question: its timestamp and, for a hotspot question, the frame time
\* (0 for none)
Question(timestamp, type, frame_timestamp) ==
  [timestamp |-> timestamp, type |-> type, frame_timestamp |-> frame_timestamp]

IdlePage ==
  [questions |-> <<>>, currentQuestionIndex |-> 0, showQuestion |-> FALSE,
   answeredQuestions |-> {}, skippedQuestions |-> {},
   currentTime |-> 0,
   \* the viewer is logged in (useAuth)
   user |-> FALSE,
   \* the calls of handleVideoSeek that wait for an awaited call
   seeks |-> EmptyBag,
   \* the player exists, and it is playing
   player |-> FALSE, playing |-> FALSE,
   \* the effect of the last render has not run yet
   effect |-> FALSE]

InitSeg ==
  /\ courses = <<NewCourse(UrlWatchA)>>
  /\ questions = {}
  /\ course_segments = <<>>
  /\ progress = <<>>
  /\ orchestrated = {}
  /\ req = [r \in Requests |-> IdleRequest]
  /\ inv = [i \in Invocations |-> IdleInvocation]
  /\ ratings = {}
  /\ ratingReq = [q \in RatingRequests |-> IdleRatingRequest]
  /\ page = IdlePage
  /\ progressKeyUnique \in BOOLEAN

\* the edge function is invoked directly
InitInvoke(i, body, answer) ==
  /\ inv[i].pc = "idle"
  /\ inv' = StartInvocation(i, 0, body, answer)
  /\ UNCHANGED <<courses, questions, course_segments, progress, orchestrated, req,
                 ratings, ratingReq, page, progressKeyUnique>>

\* an invocation with a session for every input, one without a session and
\* one whose URL has no video id the function can extract
SegInvoke ==
  \/ \E in \in SegInputs, q \in QuestionLimits :
       InitInvoke(1, InitBody(1, UrlWatchA, q, in.segment_duration, 1), in.answer)
  \/ \E url \in {UrlShortA, UrlLateV}, s \in {0} \cup Sessions :
       InitInvoke(1, InitBody(1, url, DefaultMaxQuestions, DefaultSegmentDuration, s),
                  NoAnswer)

NextSeg ==
  \/ SegInvoke
  \/ InitBegin(1, BOOLEAN)
  \/ InitCreateSegments(1, BOOLEAN)
  \/ InitUpdateSegmentCount(1, BOOLEAN)
  \/ InitTrackProgress(1, BOOLEAN)
  \/ InitTriggerOrchestrator(1, BOOLEAN)
  \/ InitRespond(1, BOOLEAN)

SpecSeg == InitSeg /\ [][NextSeg]_vars

(***************************************************************************)
(* Properties of the segment splitting.                                    *)
(***************************************************************************)
\* the invocation has inserted its segment rows
SegmentsCreated(i) == Len(inv[i].createdSegments) > 0

SegLength(row) == row.end_time - row.start_time

\* C1: the segments created for a split video tile it exactly: indexes
\* 0..n-1, the first starts at 0, each starts where the previous one ends,
\* the last ends at the total duration (the duration given by YouTube or the
\* 1800 s default), every segment has positive length, and the rows are the
\* ones stored in course_segments.
C1_SegmentsTileVideo ==
  \A i \in Invocations :
    (SegmentsCreated(i) /\ inv[i].shouldSegment /\ inv[i].segment_duration > 0) =>
      LET segs == inv[i].createdSegments
          n == Len(segs)
      IN  /\ inv[i].totalDuration =
               (IF inv[i].answer.found /\ parseISO8601Duration(inv[i].answer.duration) > 0
                THEN parseISO8601Duration(inv[i].answer.duration)
                ELSE DefaultDuration)
          /\ \A k \in 1..n : segs[k].segment_index = k - 1
          /\ segs[1].start_time = 0
          /\ \A k \in 1..(n - 1) : segs[k + 1].start_time = segs[k].end_time
          /\ segs[n].end_time = inv[i].totalDuration
          /\ \A k \in 1..n : segs[k].end_time > segs[k].start_time
          /\ \A k \in 1..n : \E j \in 1..Len(course_segments) : course_segments[j] = segs[k]

\* a split video whose short last piece was merged into the piece before it
C1_Witness ==
  \E i \in Invocations :
    /\ SegmentsCreated(i) /\ inv[i].shouldSegment
    /\ Len(inv[i].createdSegments) >= 3
    /\ Len(inv[i].createdSegments) < inv[i].totalSegments

\* C2 as stated: after merging, no segment of a video split into more than
\* one raw segment is shorter than 20 seconds, whatever segment_duration is.
C2_NoShortSegmentAnyDuration ==
  \A i \in Invocations :
    (SegmentsCreated(i) /\ inv[i].shouldSegment /\ inv[i].totalSegments > 1) =>
      \A k \in 1..Len(inv[i].createdSegments) :
        SegLength(inv[i].createdSegments[k]) >= ShortSegmentLimit

\* C2 amended: when segment_duration is at least 20 seconds, no segment of a
\* video split into more than one raw segment is shorter than 20 seconds.
C2_NoShortSegment ==
  \A i \in Invocations :
    (/\ SegmentsCreated(i) /\ inv[i].shouldSegment /\ inv[i].totalSegments > 1
     /\ inv[i].segment_duration >= ShortSegmentLimit) =>
      \A k \in 1..Len(inv[i].createdSegments) :
        SegLength(inv[i].createdSegments[k]) >= ShortSegmentLimit

\* a video whose last raw piece was shorter than 20 s, with segment_duration >= 20
C2_Witness ==
  \E i \in Invocations :
    /\ SegmentsCreated(i) /\ inv[i].shouldSegment
    /\ inv[i].segment_duration >= ShortSegmentLimit
    /\ inv[i].totalSegments > 1
    /\ Len(inv[i].createdSegments) = inv[i].totalSegments - 1

\* the least n with 60 * n >= seconds
MinutesCovering(seconds) ==
  CHOOSE n \in 0..seconds : 60 * n >= seconds /\ (n = 0 \/ 60 * (n - 1) < seconds)

\* C3: the expected question count of every created segment is
\* min(ceil(length / 60), max_questions_per_segment); it never exceeds
\* max_questions_per_segment, is at least 1 when max_questions_per_segment >= 1,
\* and the total is the sum over the segments as created (after the merge).
C3_ExpectedQuestions ==
  \A i \in Invocations :
    (SegmentsCreated(i) /\ inv[i].shouldSegment) =>
      LET segs == inv[i].createdSegments
          eq == inv[i].expectedQuestions
          maxq == inv[i].max_questions_per_segment
      IN  /\ Len(eq) = Len(segs)
          /\ \A k \in 1..Len(segs) :
               /\ eq[k] = Min(MinutesCovering(SegLength(segs[k])), maxq)
               /\ eq[k] <= maxq
               /\ maxq >= 1 => eq[k] >= 1
          /\ inv[i].totalExpectedQuestions =
               SumSeq([k \in 1..Len(segs) |->
                         Min(MinutesCovering(SegLength(segs[k])), maxq)])

\* a merged video with a segment longer than a minute whose count is capped
C3_Witness ==
  \E i \in Invocations :
    /\ SegmentsCreated(i) /\ inv[i].shouldSegment
    /\ Len(inv[i].createdSegments) < inv[i].totalSegments
    /\ inv[i].max_questions_per_segment >= 1
    /\ \E k \in 1..Len(inv[i].createdSegments) :
         /\ SegLength(inv[i].createdSegments[k]) > SecondsPerQuestion
         /\ inv[i].expectedQuestions[k] = inv[i].max_questions_per_segment
    /\ inv[i].totalExpectedQuestions > 0

\* the duration was obtained from the API (getVideoDuration did not return null)
DurationObtained(i) == ~inv[i].videoDuration.null

\* the invocation is processed as the one segment [0, duration]
SingleSegment(i) ==
  /\ Len(inv[i].createdSegments) = 1
  /\ inv[i].createdSegments[1].segment_index = 0
  /\ inv[i].createdSegments[1].start_time = 0
  /\ inv[i].createdSegments[1].end_time = inv[i].videoDuration.seconds

Answered(i) == inv[i].pc = "done" /\ inv[i].res.status = 200

\* C4 as stated: a duration obtained from the API that does not exceed
\* segment_duration gives one segment [0, duration], segmented=false and
\* total_segments=1; only a longer video or one without a duration is split.
C4_ShortVideoSingleSegmentAnyDuration ==
  \A i \in Invocations :
    /\ (SegmentsCreated(i) /\ DurationObtained(i)
        /\ inv[i].videoDuration.seconds <= inv[i].segment_duration) =>
         /\ SingleSegment(i)
         /\ Answered(i) => (~inv[i].res.segmented /\ inv[i].res.total_segments = 1)
    /\ (SegmentsCreated(i) /\ inv[i].shouldSegment) =>
         \/ ~DurationObtained(i)
         \/ inv[i].videoDuration.seconds > inv[i].segment_duration

\* C4 amended: a positive duration obtained from the API that does not exceed
\* segment_duration gives one segment [0, duration], segmented=false and
\* total_segments=1; only a longer video, one without a duration, or one whose
\* duration is reported or parsed as 0 is split (as a video of 1800 s).
C4_ShortVideoSingleSegment ==
  \A i \in Invocations :
    /\ (SegmentsCreated(i) /\ DurationObtained(i)
        /\ inv[i].videoDuration.seconds > 0
        /\ inv[i].videoDuration.seconds <= inv[i].segment_duration) =>
         /\ SingleSegment(i)
         /\ ~inv[i].shouldSegment
         /\ Answered(i) => (~inv[i].res.segmented /\ inv[i].res.total_segments = 1
                            /\ Len(inv[i].res.segments) = 1)
    /\ (SegmentsCreated(i) /\ inv[i].shouldSegment) =>
         \/ ~DurationObtained(i)
         \/ inv[i].videoDuration.seconds = 0
         \/ inv[i].videoDuration.seconds > inv[i].segment_duration
    /\ (SegmentsCreated(i) /\ inv[i].shouldSegment
        /\ (~DurationObtained(i) \/ inv[i].videoDuration.seconds = 0)) =>
         inv[i].totalDuration = DefaultDuration

\* a video exactly as long as segment_duration answered as a single segment
C4_Witness ==
  \E i \in Invocations :
    /\ Answered(i) /\ DurationObtained(i)
    /\ inv[i].videoDuration.seconds = inv[i].segment_duration
    /\ ~inv[i].res.segmented

(***************************************************************************)
(* analyze-video-smart.                                                    *)
(***************************************************************************)
AnalyzeBody(method, course_id, youtube_url, session_id, useCache) ==
  [method |-> method, course_id |-> course_id, youtube_url |-> youtube_url,
   session_id |-> session_id, useCache |-> useCache,
   segment_duration |-> DefaultSegmentDuration, max_questions |-> DefaultMaxQuestions]

\* res.status(status).json(...) ends the request
Respond(r, fields) == [req EXCEPT ![r].pc = "done", ![r].res = fields]

ErrorResponse(status) == [NoAnalyzeResponse EXCEPT !.status = status]

\* the request is read and validated (lines 41-66); the body of a request
\* without youtube_url or session_id has <<>> or 0 there
AnalyzeReceive(r, in) ==
  /\ req[r].pc = "idle"
  /\ UNCHANGED <<courses, questions, course_segments, progress, orchestrated, inv,
                 ratings, ratingReq, page, progressKeyUnique>>
  /\ LET got == [IdleRequest EXCEPT
                   !.method = in.method, !.course_id = in.course_id,
                   !.youtube_url = in.youtube_url, !.session_id = in.session_id,
                   !.useCache = in.useCache,
                   !.segment_duration = in.segment_duration,
                   !.max_questions = in.max_questions,
                   !.cid = in.course_id]
     IN  req' = [req EXCEPT ![r] =
           IF in.method # "POST"
           THEN [got EXCEPT !.pc = "done", !.res = ErrorResponse(405)]
           ELSE IF in.youtube_url = <<>> \/ in.session_id = 0
           THEN [got EXCEPT !.pc = "done", !.res = ErrorResponse(400)]
           ELSE IF ~isValidYouTubeUrl(in.youtube_url)
           THEN [got EXCEPT !.pc = "done", !.res = ErrorResponse(400)]
           ELSE [got EXCEPT !.pc = IF in.useCache /\ in.course_id = 0 THEN "cache"
                                   ELSE IF in.course_id = 0 THEN "create"
                                   ELSE "handoff"]]

\* the courses with the URL, oldest first
ExistingCoursesOldestFirst(table, sanitizedUrl) ==
  SelectSeq([k \in 1..Len(table) |-> k],
            LAMBDA c : table[c].youtube_url = sanitizedUrl)

\* .select(...).eq('youtube_url', sanitizedUrl).order('created_at',
\* { ascending: false }): the ids of the courses with the URL, the most
\* recently created one first
ExistingCourses(table, sanitizedUrl) ==
  SelectSeq([k \in 1..Len(table) |-> Len(table) + 1 - k],
            LAMBDA c : table[c].youtube_url = sanitizedUrl)

\* the cache check queries the courses of the sanitized URL (lines 99-111);
\* with an error or no course the handler goes on to create a course
AnalyzeCacheCheck(r, Faults) ==
  /\ req[r].pc = "cache"
  /\ UNCHANGED <<courses, questions, course_segments, progress, orchestrated, inv,
                 ratings, ratingReq, page, progressKeyUnique>>
  /\ \E cacheError \in Faults :
       LET existingCourses ==
             IF cacheError THEN <<>>
             ELSE ExistingCourses(courses, sanitizeYouTubeUrl(req[r].youtube_url))
       IN  req' = [req EXCEPT
                     ![r].pc = IF existingCourses = <<>> THEN "create" ELSE "questions",
                     ![r].existingCourses = existingCourses,
                     ![r].questionsThen = questions,
                     ![r].cacheFailed = cacheError]

\* one turn of the loop over the courses found (lines 113-139): the
\* questions of the next course are queried; a course with a question is
\* the answer, and after the last course the handler goes on to create one
AnalyzeCheckQuestions(r, Faults) ==
  /\ req[r].pc = "questions"
  /\ UNCHANGED <<courses, questions, course_segments, progress, orchestrated, inv,
                 ratings, ratingReq, page, progressKeyUnique>>
  /\ \E questionsError \in Faults :
       LET existingCourse == Head(req[r].existingCourses)
           rest == Tail(req[r].existingCourses)
       IN  IF ~questionsError /\ existingCourse \in questions
           THEN req' = [req EXCEPT
                          ![r].pc = "done",
                          ![r].res = [NoAnalyzeResponse EXCEPT
                                        !.status = 200, !.success = TRUE,
                                        !.cached = TRUE,
                                        !.course_id = existingCourse]]
           ELSE req' = [req EXCEPT
                          ![r].pc = IF rest = <<>> THEN "create" ELSE "questions",
                          ![r].existingCourses = rest,
                          ![r].cacheFailed = @ \/ questionsError]

\* a new course record is inserted (lines 144-187)
AnalyzeCreateCourse(r) ==
  /\ req[r].pc = "create"
  /\ UNCHANGED <<questions, course_segments, progress, orchestrated, inv,
                 ratings, ratingReq, page, progressKeyUnique>>
  /\ \E courseError \in BOOLEAN :
       IF courseError
       THEN /\ req' = Respond(r, ErrorResponse(500))
            /\ UNCHANGED courses
       ELSE /\ courses' = Append(courses, NewCourse(sanitizeYouTubeUrl(req[r].youtube_url)))
            /\ req' = [req EXCEPT ![r].pc = "handoff",
                                  ![r].cid = Len(courses) + 1,
                                  ![r].dbWrites = @ + 1,
                                  ![r].courseInserts = @ + 1]

\* a progress upsert of the handler for the course (lines 219, 279, 312, 353
\* and 462); the handler awaits it and does not look at its result, so a
\* write the database rejects leaves the table as it was
WriteProgress(course_id, session_id, stage, overall_progress, progressError) ==
  progress' = IF progressError THEN progress
              ELSE UpsertProgress(progress,
                     ProgressRow(course_id, session_id, stage, overall_progress))

\* the database has rejected an upsert: a fault, or no constraint to match
UpsertRejected(progressError) == progressError \/ ~progressKeyUnique

\* the request's log of the progress writes it has issued
Logged(rq, stage, overall_progress, progressError) ==
  [rq EXCEPT !.writes = Append(@, [stage |-> stage, overall_progress |-> overall_progress]),
             !.rejected = Append(@, UpsertRejected(progressError)),
             !.dbWrites = @ + 1]

\* progress is initialized and the init function is called (lines 216-269)
AnalyzeHandOff(r, Faults) ==
  /\ req[r].pc = "handoff"
  /\ inv[r].pc = "idle"
  /\ inv' = StartInvocation(r, r,
              InitBody(req[r].cid, req[r].youtube_url, req[r].max_questions,
                       req[r].segment_duration, req[r].session_id),
              VideoAnswer(req[r].youtube_url))
  /\ \E progressError \in Faults :
       /\ WriteProgress(req[r].cid, req[r].session_id,
                        "initialization", ProgressStart, progressError)
       /\ req' = [req EXCEPT ![r] =
                    [Logged(req[r], "initialization", ProgressStart, progressError)
                       EXCEPT !.pc = "await", !.invId = r, !.initCalls = @ + 1]]
  /\ UNCHANGED <<courses, questions, course_segments, orchestrated, ratings,
                 ratingReq, page, progressKeyUnique>>

\* a handler that writes progress after every answer of the init function,
\* also for a video that was not segmented
AnalyzeInitAnsweredAlwaysWrites(r, Faults) ==
  /\ req[r].pc = "await"
  /\ inv[req[r].invId].pc = "done"
  /\ UNCHANGED <<courses, questions, course_segments, orchestrated, inv,
                 ratings, ratingReq, page, progressKeyUnique>>
  /\ \E progressError \in Faults :
       LET initResult == inv[req[r].invId].res
           stage == IF initResult.status # 200 THEN "failed" ELSE "planning"
           value == IF initResult.status # 200 THEN ProgressFailed ELSE ProgressRunning
       IN  /\ WriteProgress(req[r].cid, req[r].session_id, stage, value, progressError)
           /\ req' = [req EXCEPT ![r] =
                        [Logged(req[r], stage, value, progressError) EXCEPT
                           !.pc = "done", !.got = "answer",
                           !.res = IF initResult.status # 200 THEN ErrorResponse(500)
                                   ELSE [NoAnalyzeResponse EXCEPT
                                           !.status = 200, !.success = TRUE,
                                           !.segmented = initResult.segmented,
                                           !.course_id = req[r].cid,
                                           !.total_segments = initResult.total_segments]]]

\* the init function has answered (lines 271-302 and 345-448)
AnalyzeInitAnswered(r, Faults) ==
  /\ req[r].pc = "await"
  /\ inv[req[r].invId].pc = "done"
  /\ UNCHANGED <<courses, questions, course_segments, orchestrated, inv,
                 ratings, ratingReq, page, progressKeyUnique>>
  /\ LET initResult == inv[req[r].invId].res
     IN  IF initResult.status # 200
         THEN \E progressError \in Faults :
                /\ WriteProgress(req[r].cid, req[r].session_id,
                                 "failed", ProgressFailed, progressError)
                /\ req' = [req EXCEPT ![r] =
                             [Logged(req[r], "failed", ProgressFailed, progressError)
                                EXCEPT !.pc = "done", !.got = "answer",
                                       !.res = ErrorResponse(500)]]
         ELSE IF initResult.segmented
         THEN \E progressError \in Faults :
                /\ WriteProgress(req[r].cid, req[r].session_id,
                                 "planning", ProgressRunning, progressError)
                /\ req' = [req EXCEPT ![r] =
                             [Logged(req[r], "planning", ProgressRunning, progressError)
                                EXCEPT !.pc = "done", !.got = "answer",
                                       !.res = [NoAnalyzeResponse EXCEPT
                                                  !.status = 200, !.success = TRUE,
                                                  !.segmented = TRUE,
                                                  !.course_id = req[r].cid,
                                                  !.total_segments = initResult.total_segments]]]
         ELSE /\ UNCHANGED progress
              /\ req' = [req EXCEPT ![r].pc = "done", ![r].got = "answer",
                                    ![r].res = [NoAnalyzeResponse EXCEPT
                                                  !.status = 200, !.success = TRUE,
                                                  !.course_id = req[r].cid]]

\* a handler that sends the hand-off again when the timer aborts the call
AnalyzeTimeoutRetry(r, Faults) ==
  /\ req[r].pc = "await"
  /\ req[r].initCalls < 2
  /\ req' = [req EXCEPT ![r].got = "abort", ![r].initCalls = @ + 1]
  /\ UNCHANGED <<courses, questions, course_segments, progress, orchestrated, inv,
                 ratings, ratingReq, page, progressKeyUnique>>

\* the 30-second timer aborts the call (lines 303-339)
AnalyzeTimeout(r, Faults) ==
  /\ req[r].pc = "await"
  /\ \E progressError \in Faults :
       /\ WriteProgress(req[r].cid, req[r].session_id,
                        "initialization", ProgressRunning, progressError)
       /\ req' = [req EXCEPT ![r] =
                    [Logged(req[r], "initialization", ProgressRunning, progressError)
                       EXCEPT !.pc = "done", !.got = "abort",
                              !.res = [NoAnalyzeResponse EXCEPT
                                         !.status = 200, !.success = TRUE,
                                         !.background_processing = TRUE,
                                         !.course_id = req[r].cid]]]
  /\ UNCHANGED <<courses, questions, course_segments, orchestrated, inv,
                 ratings, ratingReq, page, progressKeyUnique>>

\* the call fails for another reason (network error, unreadable answer): the
\* error is thrown again and caught by the outer catch (lines 341-342, 450-487),
\* which looks at the course_id of the request body
AnalyzeCallError(r, Faults) ==
  /\ req[r].pc = "await"
  /\ IF req[r].session_id # 0 /\ req[r].course_id # 0
     THEN \E progressError \in Faults :
            /\ WriteProgress(req[r].course_id, req[r].session_id,
                             "failed", ProgressFailed, progressError)
            /\ req' = [req EXCEPT ![r] =
                         [Logged(req[r], "failed", ProgressFailed, progressError)
                            EXCEPT !.pc = "done", !.got = "error",
                                   !.res = ErrorResponse(500)]]
     ELSE /\ UNCHANGED progress
          /\ req' = [req EXCEPT ![r].pc = "done", ![r].got = "error",
                                ![r].res = ErrorResponse(500)]
  /\ UNCHANGED <<courses, questions, course_segments, orchestrated, inv,
                 ratings, ratingReq, page, progressKeyUnique>>

\* orchestrate-segment-processing stores the first question of a course it
\* was triggered for
GenerateQuestions(c) ==
  /\ c \in orchestrated
  /\ c \notin questions
  /\ questions' = questions \cup {c}
  /\ UNCHANGED <<courses, course_segments, progress, orchestrated, req, inv,
                 ratings, ratingReq, page, progressKeyUnique>>

(***************************************************************************)
(* The pipeline: analyze requests, init invocations, the orchestrator.     *)
(***************************************************************************)
\* a course_id that no course has
UnknownCourseId == 7

AnalyzeInputs ==
  {AnalyzeBody("GET", 0, UrlShortA, 1, TRUE),
   AnalyzeBody("POST", 0, <<>>, 1, TRUE),
   AnalyzeBody("POST", 0, UrlShortA, 0, TRUE),
   AnalyzeBody("POST", 0, UrlOther, 1, TRUE),
   AnalyzeBody("POST", 0, UrlLateCR, 1, TRUE)}
  \cup
  {AnalyzeBody("POST", 0, u, s, cache) :
     u \in PipelineUrls, s \in Sessions, cache \in BOOLEAN}
  \cup
  {AnalyzeBody("POST", c, u, s, TRUE) :
     c \in 1..MaxRequests, u \in PipelineUrls, s \in Sessions}
  \cup
  {AnalyzeBody("POST", UnknownCourseId, u, s, TRUE) :
     u \in {UrlWatchAT, UrlLateV}, s \in Sessions}

\* a client names a course that exists, or a course that never did
AnalyzeArrivals ==
  {in \in AnalyzeInputs : in.course_id \in (0..Len(courses)) \cup {UnknownCourseId}}

\* the pipeline on a database that has the unique constraint and accepts every
\* progress write; SpecProgress below has both databases and the rejected
\* writes
Init ==
  /\ courses = <<>>
  /\ questions = {}
  /\ course_segments = <<>>
  /\ progress = <<>>
  /\ orchestrated = {}
  /\ req = [r \in Requests |-> IdleRequest]
  /\ inv = [i \in Invocations |-> IdleInvocation]
  /\ ratings = {}
  /\ ratingReq = [q \in RatingRequests |-> IdleRatingRequest]
  /\ page = IdlePage
  /\ progressKeyUnique = TRUE

Next ==
  \/ \E r \in Requests, in \in AnalyzeArrivals : AnalyzeReceive(r, in)
  \/ \E r \in Requests : AnalyzeCacheCheck(r, {FALSE})
  \/ \E r \in Requests : AnalyzeCheckQuestions(r, {FALSE})
  \/ \E r \in Requests : AnalyzeCreateCourse(r)
  \/ \E r \in Requests : AnalyzeHandOff(r, {FALSE})
  \/ \E r \in Requests : AnalyzeInitAnswered(r, {FALSE})
  \/ \E r \in Requests : AnalyzeTimeout(r, {FALSE})
  \/ \E r \in Requests : AnalyzeCallError(r, {FALSE})
  \/ \E i \in Invocations : InitBegin(i, {FALSE})
  \/ \E i \in Invocations : InitCreateSegments(i, {FALSE})
  \/ \E i \in Invocations : InitUpdateSegmentCount(i, {FALSE})
  \/ \E i \in Invocations : InitTrackProgress(i, {FALSE})
  \/ \E i \in Invocations : InitTriggerOrchestrator(i, BOOLEAN)
  \/ \E i \in Invocations : InitRespond(i, BOOLEAN)
  \/ \E c \in 1..Len(courses) : GenerateQuestions(c)

Spec == Init /\ [][Next]_vars

(***************************************************************************)
(* The progress runs: two analyze requests for a long and a short video,   *)
(* on a database with or without the unique constraint on (course_id,      *)
(* session_id) of quiz_generation_progress, where any progress write may   *)
(* be rejected.                                                            *)
(***************************************************************************)
ProgressUrls == {UrlShortA, UrlShortC}

\* the second request may name the course that the first one created
ProgressInputs ==
  {AnalyzeBody("POST", c, u, s, FALSE) :
     c \in 0..1, u \in ProgressUrls, s \in Sessions}

ProgressArrivals ==
  {in \in ProgressInputs : in.course_id \in 0..Len(courses)}

InitProgress ==
  /\ courses = <<>>
  /\ questions = {}
  /\ course_segments = <<>>
  /\ progress = <<>>
  /\ orchestrated = {}
  /\ req = [r \in Requests |-> IdleRequest]
  /\ inv = [i \in Invocations |-> IdleInvocation]
  /\ ratings = {}
  /\ ratingReq = [q \in RatingRequests |-> IdleRatingRequest]
  /\ page = IdlePage
  /\ progressKeyUnique \in BOOLEAN

NextProgress ==
  \/ \E r \in Requests, in \in ProgressArrivals : AnalyzeReceive(r, in)
  \/ \E r \in Requests : AnalyzeCreateCourse(r)
  \/ \E r \in Requests : AnalyzeHandOff(r, BOOLEAN)
  \/ \E r \in Requests : AnalyzeInitAnswered(r, BOOLEAN)
  \/ \E r \in Requests : AnalyzeTimeout(r, BOOLEAN)
  \/ \E r \in Requests : AnalyzeCallError(r, BOOLEAN)
  \/ \E i \in Invocations : InitBegin(i, {FALSE})
  \/ \E i \in Invocations : InitCreateSegments(i, {FALSE})
  \/ \E i \in Invocations : InitUpdateSegmentCount(i, {FALSE})
  \/ \E i \in Invocations : InitTrackProgress(i, BOOLEAN)
  \/ \E i \in Invocations : InitTriggerOrchestrator(i, BOOLEAN)
  \/ \E i \in Invocations : InitRespond(i, {FALSE})

SpecProgress == InitProgress /\ [][NextProgress]_vars

(***************************************************************************)
(* Properties of the pipeline.                                             *)
(***************************************************************************)
\* the rows of quiz_generation_progress with the key (course_id, session_id)
ProgressRowsOf(course_id, session_id) ==
  {k \in 1..Len(progress) :
     progress[k].course_id = course_id /\ progress[k].session_id = session_id}

WriteOf(stage, overall_progress) == [stage |-> stage, overall_progress |-> overall_progress]

\* request r issues a progress write in this step
IssuesWrite(r) == Len(req'[r].writes) = Len(req[r].writes) + 1

\* the row that request r writes in this step; the outer catch takes the
\* course from the request body, every other write from the course at hand
WrittenRow(r) ==
  LET n == Len(req'[r].writes)
  IN  ProgressRow(IF req'[r].got = "error" THEN req[r].course_id ELSE req[r].cid,
                  req[r].session_id,
                  req'[r].writes[n].stage, req'[r].writes[n].overall_progress)

\* the write that request r issues in this step changes nothing when the
\* database rejects it; when the database accepts it the table has exactly one
\* row of the key afterwards, the row written, one row more than before only
\* if the key had none, and the rows of the other keys are as they were
WriteTakesEffect(r) ==
  IF req'[r].rejected[Len(req'[r].writes)]
  THEN progress' = progress
  ELSE /\ progressKeyUnique
       /\ \E k \in 1..Len(progress') :
            /\ progress'[k] = WrittenRow(r)
            /\ \A j \in 1..Len(progress') :
                 SameKey(progress'[j], WrittenRow(r)) => j = k
       /\ Len(progress') = IF ProgressKeyTaken(progress, WrittenRow(r))
                           THEN Len(progress) ELSE Len(progress) + 1
       /\ \A k \in 1..Len(progress) :
            ~SameKey(progress[k], WrittenRow(r)) => progress'[k] = progress[k]

\* a step of an init invocation that changes the table: its plain insert adds
\* the row 'planning' at 0 of its pair, on a database with the constraint only
\* for a pair that has no row
InitInserts ==
  \E i \in Invocations :
    /\ inv[i].pc = "progress" /\ inv'[i].pc = "orchestrate"
    /\ LET row == ProgressRow(inv[i].course_id, inv[i].session_id,
                              "planning", ProgressStart)
       IN  /\ progress' = Append(progress, row)
           /\ progressKeyUnique => ~ProgressKeyTaken(progress, row)

OnlyWriter(r) ==
  \A o \in Requests \ {r} :
    \/ req[o].writes = <<>>
    \/ req[o].cid # req[r].cid
    \/ req[o].session_id # req[r].session_id

\* the progress record of request r is the one row (stage, overall_progress)
ProgressIs(r, stage, overall_progress) ==
  /\ Cardinality(ProgressRowsOf(req[r].cid, req[r].session_id)) = 1
  /\ \A k \in ProgressRowsOf(req[r].cid, req[r].session_id) :
       progress[k].stage = stage /\ progress[k].overall_progress = overall_progress

\* the record that request r is left with after its two writes, the second
\* one (stage, overall_progress), while no other request writes the pair: the
\* second write if the database accepted it, else the first write
\* 'initialization' at 0.0 if the database accepted that, else no row but the
\* 'planning' rows of init invocations
RecordAfter(r, stage, overall_progress) ==
  /\ Len(req[r].rejected) = 2
  /\ (OnlyWriter(r) /\ ~req[r].rejected[2]) => ProgressIs(r, stage, overall_progress)
  /\ (OnlyWriter(r) /\ req[r].rejected[2] /\ ~req[r].rejected[1]) =>
       ProgressIs(r, "initialization", ProgressStart)
  /\ (OnlyWriter(r) /\ req[r].rejected[2] /\ req[r].rejected[1]) =>
       \A k \in ProgressRowsOf(req[r].cid, req[r].session_id) :
         progress[k].stage = "planning" /\ progress[k].overall_progress = ProgressStart

\* C6 as stated: when the 30-second timeout aborts the hand-off, the request
\* is answered 200 with success=true and background_processing=true, its
\* progress writes are 'initialization' 0.0 and then 'initialization' 0.1
\* (never 'failed'), and the record stays in stage 'initialization' at 0.1
\* while no other request writes it.
C6_TimeoutContinuesInBackground ==
  \A r \in Requests :
    req[r].got = "abort" =>
      /\ req[r].pc = "done"
      /\ req[r].res.status = 200
      /\ req[r].res.success
      /\ req[r].res.background_processing
      /\ req[r].writes = <<WriteOf("initialization", ProgressStart),
                           WriteOf("initialization", ProgressRunning)>>
      /\ OnlyWriter(r) => ProgressIs(r, "initialization", ProgressRunning)

\* C6, amended: when the 30-second timeout aborts the hand-off, the request is
\* answered 200 with success=true and background_processing=true after it has
\* issued the writes 'initialization' 0.0 and 'initialization' 0.1 (never
\* 'failed'); the record is 'initialization' at 0.1 if the database accepted
\* the second write, and stays so while the init function runs on; a rejected
\* write changes nothing and the answer is the same.
C6_TimeoutAnswersBackground ==
  /\ [](\A r \in Requests :
          req[r].got = "abort" =>
            /\ req[r].pc = "done"
            /\ req[r].res.status = 200
            /\ req[r].res.success
            /\ req[r].res.background_processing
            /\ req[r].writes = <<WriteOf("initialization", ProgressStart),
                                 WriteOf("initialization", ProgressRunning)>>
            /\ RecordAfter(r, "initialization", ProgressRunning))
  /\ [][\A r \in Requests :
          (req[r].pc = "await" /\ req'[r].got = "abort") =>
            IssuesWrite(r) /\ WriteTakesEffect(r)]_vars

\* a timed-out request whose two writes the database accepted and whose init
\* invocation has finished in the background
C6_Witness ==
  \E r \in Requests :
    /\ req[r].got = "abort"
    /\ OnlyWriter(r)
    /\ ~req[r].rejected[1] /\ ~req[r].rejected[2]
    /\ inv[r].pc = "done" /\ inv[r].res.status = 200 /\ inv[r].res.segmented
    /\ ProgressIs(r, "initialization", ProgressRunning)

\* C7 as stated: when the init function answers with a non-OK status, the
\* request is answered 500 with success=false, its progress writes are
\* 'initialization' 0.0 and then 'failed' 0.05 and nothing after it, and the
\* record is 'failed' at 0.05 while no other request writes it.
C7_InitFailureMarksFailed ==
  \A r \in Requests :
    (req[r].got = "answer" /\ inv[r].res.status # 200) =>
      /\ req[r].pc = "done"
      /\ req[r].res.status = 500
      /\ ~req[r].res.success
      /\ req[r].writes = <<WriteOf("initialization", ProgressStart),
                           WriteOf("failed", ProgressFailed)>>
      /\ OnlyWriter(r) => ProgressIs(r, "failed", ProgressFailed)

\* C7, amended: when the init function answers with a non-OK status, the
\* request is answered 500 with success=false after it has issued the writes
\* 'initialization' 0.0 and 'failed' 0.05 and nothing after them; the record
\* is 'failed' at 0.05 if the database accepted the second write; a rejected
\* write changes nothing and the answer is the same.
C7_InitFailureAnswers500 ==
  /\ [](\A r \in Requests :
          (req[r].got = "answer" /\ inv[r].res.status # 200) =>
            /\ req[r].pc = "done"
            /\ req[r].res.status = 500
            /\ ~req[r].res.success
            /\ req[r].writes = <<WriteOf("initialization", ProgressStart),
                                 WriteOf("failed", ProgressFailed)>>
            /\ RecordAfter(r, "failed", ProgressFailed))
  /\ [][\A r \in Requests :
          (req[r].pc = "await" /\ req'[r].got = "answer"
           /\ inv[req[r].invId].res.status # 200) =>
            IssuesWrite(r) /\ WriteTakesEffect(r)]_vars

\* a request whose init invocation failed at the orchestrator call, after its
\* progress insert, and whose two writes the database accepted
C7_Witness ==
  \E r \in Requests :
    /\ req[r].got = "answer" /\ inv[r].res.status = 500
    /\ req[r].res.status = 500
    /\ OnlyWriter(r)
    /\ ~req[r].rejected[1] /\ ~req[r].rejected[2]
    /\ ProgressIs(r, "failed", ProgressFailed)

\* the request r is one the endpoint rejects: not a POST, no youtube_url, no
\* session_id, or a URL that is no YouTube URL
NotPost(r) == req[r].method # "POST"
MissingField(r) == req[r].youtube_url = <<>> \/ req[r].session_id = 0
ForeignUrl(r) == req[r].youtube_url \in {UrlOther, UrlLateCR}

\* C8: a non-POST request gets 405, a POST without youtube_url or session_id
\* gets 400, a POST with a URL that is no YouTube URL gets 400; such a request
\* writes nothing to the database and does not call the init function, and
\* the step that answers it changes no table and no invocation.
C8_RejectedRequestsTouchNothing ==
  /\ [](\A r \in Requests :
          (req[r].pc # "idle" /\ (NotPost(r) \/ MissingField(r) \/ ForeignUrl(r))) =>
            /\ req[r].pc = "done"
            /\ req[r].res.status = (IF NotPost(r) THEN 405 ELSE 400)
            /\ ~req[r].res.success
            /\ req[r].dbWrites = 0 /\ req[r].initCalls = 0
            /\ req[r].writes = <<>>
            /\ inv[r].pc = "idle")
  /\ [][\A r \in Requests :
          (req[r].pc = "idle" /\ req'[r].pc # "idle"
           /\ (req'[r].method # "POST" \/ req'[r].youtube_url \in {<<>>, UrlOther}
               \/ req'[r].session_id = 0)) =>
            UNCHANGED <<courses, questions, course_segments, progress,
                        orchestrated, inv>>]_vars

\* each kind of rejected request has been answered while the tables are not empty
C8_Witness ==
  /\ Len(courses) > 0 /\ Len(progress) > 0
  /\ \E r \in Requests :
       /\ req[r].pc = "done" /\ req[r].res.status = 400 /\ ForeignUrl(r)

(***************************************************************************)
(* The cache runs: one analyze request against a database that earlier     *)
(* requests have filled.                                                   *)
(***************************************************************************)
\* number of courses that earlier requests have left
MaxSeedCourses == 2

\* the URLs of the earlier requests
SeedUrls == {UrlWatchAT, UrlShortC}

\* the segments the init function plans for the video of url, with the
\* default segment_duration
SeedPlan(url) ==
  LET videoDuration == getVideoDuration(VideoAnswer(url))
      totalDuration == TotalDuration(videoDuration)
  IN  IF ShouldSegment(videoDuration, DefaultSegmentDuration)
      THEN MergeShortLast(RawSegments(totalDuration, DefaultSegmentDuration), totalDuration)
      ELSE <<[startTime |-> 0, endTime |-> totalDuration]>>

SeedSegmented(url) ==
  ShouldSegment(getVideoDuration(VideoAnswer(url)), DefaultSegmentDuration)

\* the course record that a successful analyze request for url leaves
SeedCourse(url) ==
  LET totalDuration == TotalDuration(getVideoDuration(VideoAnswer(url)))
      first == UpdateCourseSegmentation(<<NewCourse(sanitizeYouTubeUrl(url))>>, 1,
                 SeedSegmented(url), totalDuration, DefaultSegmentDuration)
  IN  IF SeedSegmented(url)
      THEN UpdateCourseSegmentCount(first, 1, Len(SeedPlan(url)))[1]
      ELSE first[1]

\* the segment rows of the courses of urls, course by course
RECURSIVE SeedSegments(_, _)
SeedSegments(urls, k) ==
  IF k > Len(urls) THEN <<>>
  ELSE SegmentRows(k, SeedPlan(urls[k])) \o SeedSegments(urls, k + 1)

\* the progress row a successful analyze request leaves: 'planning' 0.1 for a
\* split video, 'initialization' 0.0 otherwise
SeedProgress(urls) ==
  [k \in 1..Len(urls) |->
     IF SeedSegmented(urls[k])
     THEN ProgressRow(k, 1, "planning", ProgressRunning)
     ELSE ProgressRow(k, 1, "initialization", ProgressStart)]

SeedUrlLists == UNION {[1..n -> SeedUrls] : n \in 0..MaxSeedCourses}

InitCache ==
  \E urls \in SeedUrlLists :
    /\ courses = [k \in 1..Len(urls) |-> SeedCourse(urls[k])]
    /\ questions \in SUBSET (1..Len(urls))
    /\ course_segments = SeedSegments(urls, 1)
    /\ progress = SeedProgress(urls)
    /\ orchestrated = 1..Len(urls)
    /\ req = [r \in Requests |-> IdleRequest]
    /\ inv = [i \in Invocations |-> IdleInvocation]
    /\ ratings = {}
    /\ ratingReq = [q \in RatingRequests |-> IdleRatingRequest]
    /\ page = IdlePage
    /\ progressKeyUnique \in BOOLEAN

NextCache ==
  \/ \E in \in AnalyzeArrivals : AnalyzeReceive(1, in)
  \/ AnalyzeCacheCheck(1, BOOLEAN)
  \/ AnalyzeCheckQuestions(1, BOOLEAN)
  \/ AnalyzeCreateCourse(1)
  \/ AnalyzeHandOff(1, BOOLEAN)
  \/ AnalyzeInitAnswered(1, BOOLEAN)
  \/ AnalyzeTimeout(1, BOOLEAN)
  \/ AnalyzeCallError(1, BOOLEAN)
  \/ InitBegin(1, {FALSE})
  \/ InitCreateSegments(1, {FALSE})
  \/ InitUpdateSegmentCount(1, {FALSE})
  \/ InitTrackProgress(1, {FALSE})
  \/ InitTriggerOrchestrator(1, BOOLEAN)
  \/ InitRespond(1, BOOLEAN)
  \/ \E c \in 1..Len(courses) : GenerateQuestions(c)

SpecCache == InitCache /\ [][NextCache]_vars

\* the courses with the sanitized URL of request r that have a question
CacheCandidates(r) ==
  {c \in 1..Len(courses) :
     /\ courses[c].youtube_url = sanitizeYouTubeUrl(req[r].youtube_url)
     /\ c \in questions}

MostRecent(ids) == CHOOSE c \in ids : \A d \in ids : d <= c

\* the request is in its cache check
InCacheCheck(r) == req[r].pc \in {"cache", "questions"}

\* the answer of a cache hit with course c
CachedAnswer(r, c) ==
  /\ req'[r].pc = "done"
  /\ req'[r].res.status = 200
  /\ req'[r].res.success
  /\ req'[r].res.cached
  /\ ~req'[r].res.segmented
  /\ req'[r].res.course_id = c

\* a request answered from the cache has written nothing and called nothing
CachedWroteNothing ==
  \A r \in Requests :
    req[r].res.cached =>
      /\ req[r].dbWrites = 0 /\ req[r].courseInserts = 0
      /\ req[r].writes = <<>> /\ req[r].initCalls = 0
      /\ inv[r].pc = "idle"

\* C9 as stated: with useCache and no course_id, whenever a course with the
\* same sanitized URL has a question as the cache check ends, the request is
\* answered 200 with the most recently created such course, cached=true and
\* segmented=false, and nothing is created or written.
C9_CacheReturnsMostRecentCourse ==
  /\ [][\A r \in Requests :
          (/\ InCacheCheck(r) /\ ~InCacheCheck(r)'
           /\  CacheCandidates(r) # {}) =>
            /\ CachedAnswer(r, MostRecent(CacheCandidates(r)))
            /\ UNCHANGED <<courses, questions, course_segments, progress,
                           orchestrated, inv>>]_vars
  /\ []CachedWroteNothing

\* C9, amended: the cache check reads the courses of the sanitized URL once,
\* most recently created first, and then asks for the questions of one
\* course after the other; the answer is the first course found with a
\* question at the moment it is asked about, with cached=true and
\* segmented=false, and a query that fails counts as nothing found.  When no
\* query fails and no question is stored while the check runs, the answer is
\* the most recently created course of the URL that has a question, and a
\* new course is created only when there is none.  The cache check changes
\* no table, and a request answered from the cache has created no course,
\* written no progress and called no init function.
C9_CacheHitCreatesNothing ==
  /\ [][\A r \in Requests :
          (InCacheCheck(r) /\ req'[r] # req[r]) =>
            /\ UNCHANGED <<courses, questions, course_segments, progress,
                           orchestrated, inv>>
            /\ req[r].pc = "cache" =>
                 /\ req'[r].pc \in {"create", "questions"}
                 /\ req'[r].existingCourses \in
                      {<<>>, ExistingCourses(courses,
                                             sanitizeYouTubeUrl(req[r].youtube_url))}
            /\ (req[r].pc = "questions" /\ req'[r].pc = "done") =>
                 /\ Head(req[r].existingCourses) \in questions
                 /\ CachedAnswer(r, Head(req[r].existingCourses))
            /\ (req[r].pc = "questions" /\ req'[r].pc # "done") =>
                 /\ req'[r].existingCourses = Tail(req[r].existingCourses)
                 /\ req'[r].pc = IF req'[r].existingCourses = <<>>
                                 THEN "create" ELSE "questions"
            /\ (/\ ~InCacheCheck(r)'
                /\ ~req'[r].cacheFailed
                /\ questions = req'[r].questionsThen) =>
                  IF CacheCandidates(r) # {}
                  THEN CachedAnswer(r, MostRecent(CacheCandidates(r)))
                  ELSE req'[r].pc = "create"]_vars
  /\ []CachedWroteNothing

\* a request answered with the later of two courses that both have questions,
\* for a URL written differently from the stored one, after a cache check in
\* which no query failed and no question was stored
C9_Witness ==
  \E r \in Requests :
    /\ req[r].pc = "done" /\ req[r].res.cached
    /\ req[r].res.course_id = 2
    /\ 1 \in questions
    /\ courses[1].youtube_url = courses[2].youtube_url
    /\ req[r].youtube_url = UrlShortA
    /\ ~req[r].cacheFailed /\ req[r].questionsThen = questions


(***************************************************************************)
(* The rating handler.                                                     *)
(***************************************************************************)
\* number of users with an account
MaxUsers == 2
Users == 1..MaxUsers

\* every token resolves to a user
GetUserOfAnyToken(token) == IF token \in Users THEN token ELSE 1

\* supabase.auth.getUser(token): the user of the token, 0 for none
GetUser(token) == IF token \in Users THEN token ELSE 0

\* the validation without the integer test
RatingOutOfRange(rating) ==
  Falsy(rating) \/ JsLess(rating, 1) \/ JsGreater(rating, 5)

\* !rating || rating < 1 || rating > 5 || !Number.isInteger(rating)
RatingInvalid(rating) ==
  Falsy(rating) \/ JsLess(rating, 1) \/ JsGreater(rating, 5) \/ ~NumberIsInteger(rating)

RatingRow(user_id, course_id, rating, context) ==
  [user_id |-> user_id, course_id |-> course_id, rating |-> rating,
   rating_context |-> IF context = "none" THEN "manual" ELSE context]

SameRatingKey(row, user_id, course_id) ==
  row.user_id = user_id /\ row.course_id = course_id

\* a plain insert of the row
InsertRating(table, row) == table \union {row}

\* .upsert(ratingData, { onConflict: 'user_id,course_id' })
UpsertRating(table, row) ==
  {x \in table : ~SameRatingKey(x, row.user_id, row.course_id)} \union {row}

\* a delete that filters on the course only
DeleteCourseRatings(table, user_id, course_id) ==
  {x \in table : x.course_id # course_id}

\* .delete().eq('user_id', user.id).eq('course_id', courseId)
DeleteRating(table, user_id, course_id) ==
  {x \in table : ~SameRatingKey(x, user_id, course_id)}

\* the view course_rating_stats: the number of ratings of the course
CourseRatingStats(table, course_id) ==
  Cardinality({x \in table : x.course_id = course_id})

\* the answer of the handler, which ends the request
RatingDone(rq, status, fault) ==
  [rq EXCEPT !.pc = "done", !.fault = fault,
             !.res = [@ EXCEPT !.status = status, !.success = (status = 200)]]

\* the request arrives: the course id of the route, the method, the rating
\* of a POST and the Authorization header are looked at before the first
\* awaited call (lines 39-65, 167 and 224-232)
RatingReceive(q, in) ==
  /\ ratingReq[q].pc = "idle"
  /\ UNCHANGED <<courses, questions, course_segments, progress, orchestrated,
                 req, inv, ratings, page, progressKeyUnique>>
  /\ LET rq == [IdleRatingRequest EXCEPT
                  !.method = in.method, !.courseId = in.courseId,
                  !.rating = in.rating, !.context = in.context,
                  !.authorization = in.authorization]
     IN  ratingReq' = [ratingReq EXCEPT ![q] =
           IF in.courseId = 0 THEN RatingDone(rq, 400, "none")
           ELSE IF in.method = "POST"
           THEN IF RatingInvalid(in.rating) THEN RatingDone(rq, 400, "none")
                ELSE IF in.authorization.scheme = "Bearer"
                     THEN [rq EXCEPT !.pc = "auth"]
                     ELSE RatingDone(rq, 401, "none")
           ELSE IF in.method = "GET" THEN [rq EXCEPT !.pc = "stats"]
           ELSE IF in.method = "DELETE"
           THEN IF in.authorization.scheme = "Bearer"
                THEN [rq EXCEPT !.pc = "auth"]
                ELSE RatingDone(rq, 401, "none")
           ELSE RatingDone(rq, 405, "none")]

\* supabase.auth.getUser(token) answers with the user, answers with an error,
\* or throws (lines 66-74 and 234-242): a POST treats all failures as no
\* user, a DELETE answers 401 to an error and 500 when the call throws
AuthOutcomes == {"ok", "error", "throw"}

RatingGetUser(q) ==
  /\ ratingReq[q].pc = "auth"
  /\ UNCHANGED <<courses, questions, course_segments, progress, orchestrated,
                 req, inv, ratings, page, progressKeyUnique>>
  /\ \E outcome \in AuthOutcomes :
       LET rq == ratingReq[q]
           user == IF outcome = "ok" THEN GetUser(rq.authorization.token) ELSE 0
           fault == IF outcome = "ok" THEN "none"
                    ELSE IF outcome = "error" THEN "auth" ELSE "auth-throw"
       IN  ratingReq' = [ratingReq EXCEPT ![q] =
             IF rq.method = "DELETE" /\ outcome = "throw"
             THEN RatingDone(rq, 500, fault)
             ELSE IF user = 0 THEN RatingDone(rq, 401, fault)
             ELSE [rq EXCEPT !.userId = user,
                             !.pc = IF rq.method = "POST" THEN "course" ELSE "delete"]]

\* the course of the route is looked up (lines 86-97)
RatingSelectCourse(q) ==
  /\ ratingReq[q].pc = "course"
  /\ UNCHANGED <<courses, questions, course_segments, progress, orchestrated,
                 req, inv, ratings, page, progressKeyUnique>>
  /\ \E courseError \in BOOLEAN :
       ratingReq' = [ratingReq EXCEPT ![q] =
         IF courseError THEN RatingDone(ratingReq[q], 404, "course")
         ELSE IF ratingReq[q].courseId \notin 1..Len(courses)
         THEN RatingDone(ratingReq[q], 404, "none")
         ELSE [ratingReq[q] EXCEPT !.pc = "upsert"]]

\* the rating is upserted (lines 99-125)
RatingUpsert(q) ==
  /\ ratingReq[q].pc = "upsert"
  /\ UNCHANGED <<courses, questions, course_segments, progress, orchestrated,
                 req, inv, page, progressKeyUnique>>
  /\ \E insertError \in BOOLEAN :
       IF insertError
       THEN /\ ratingReq' = [ratingReq EXCEPT ![q] =
                               RatingDone(ratingReq[q], 500, "upsert")]
            /\ UNCHANGED ratings
       ELSE /\ ratings' = UpsertRating(ratings,
                            RatingRow(ratingReq[q].userId, ratingReq[q].courseId,
                                      ratingReq[q].rating, ratingReq[q].context))
            /\ ratingReq' = [ratingReq EXCEPT ![q].pc = "stats",
                                              ![q].res.rating = ratingReq[q].rating]

\* the statistics of the course are read from course_rating_stats, which has
\* a row for a course with ratings.  After a POST (lines 127-155) .single()
\* gives an error without a row, and without statistics the answer is 200
\* with no courseStats; for a GET (lines 167-221) an error is answered 500
\* and no row is answered with zeros
RatingSelectStats(q) ==
  /\ ratingReq[q].pc = "stats"
  /\ UNCHANGED <<courses, questions, course_segments, progress, orchestrated,
                 req, inv, ratings, page, progressKeyUnique>>
  /\ \E statsError \in BOOLEAN :
       LET rq == ratingReq[q]
           total == CourseRatingStats(ratings, rq.courseId)
           fault == IF statsError THEN "stats" ELSE "none"
           withStats == [rq EXCEPT !.res.hasStats = TRUE, !.res.total_ratings = total]
       IN  ratingReq' = [ratingReq EXCEPT ![q] =
             IF rq.method = "POST"
             THEN IF ~statsError /\ total > 0
                  THEN RatingDone(withStats, 200, fault)
                  ELSE RatingDone(rq, 200, fault)
             ELSE IF statsError THEN RatingDone(rq, 500, fault)
             ELSE RatingDone(withStats, 200, fault)]

\* the caller's rating of the course is deleted (lines 244-262)
RatingDelete(q) ==
  /\ ratingReq[q].pc = "delete"
  /\ UNCHANGED <<courses, questions, course_segments, progress, orchestrated,
                 req, inv, page, progressKeyUnique>>
  /\ \E deleteError \in BOOLEAN :
       IF deleteError
       THEN /\ ratingReq' = [ratingReq EXCEPT ![q] =
                               RatingDone(ratingReq[q], 500, "delete")]
            /\ UNCHANGED ratings
       ELSE /\ ratings' = DeleteRating(ratings, ratingReq[q].userId,
                                       ratingReq[q].courseId)
            /\ ratingReq' = [ratingReq EXCEPT ![q] =
                               RatingDone(ratingReq[q], 200, "none")]

\* the response has been delivered
RatingReturn(q) ==
  /\ ratingReq[q].pc = "done"
  /\ ratingReq' = [ratingReq EXCEPT ![q] = IdleRatingRequest]
  /\ UNCHANGED <<courses, questions, course_segments, progress, orchestrated,
                 req, inv, ratings, page, progressKeyUnique>>


(***************************************************************************)
(* Rating runs: two courses exist, and two requests are handled at a time. *)
(***************************************************************************)
TextFive == <<"5">>
TextWord == <<"a", "b">>

\* missing, null, -1, 0, 0.5, 1, 2.5, 5, 5.5, 6, "5", "", "ab", true
RatingValues ==
  {JsUndefined, JsNull, JsString(TextFive), JsString(<<>>), JsString(TextWord),
   JsBoolean(TRUE)}
  \union {JsNumber(t) : t \in {-2, 0, 1, 2, 5, 10, 11, 12}}

\* no header, another scheme, a token of no user, a token of each user
RatingHeaders ==
  {NoHeader, [scheme |-> "Basic", token |-> 1]}
  \union {Bearer(t) : t \in 0..MaxUsers}

\* course ids of the route: none, the two courses, a course that is not there
RatingCourseIds == 0..3

RatingInput(method, courseId, rating, context, authorization) ==
  [method |-> method, courseId |-> courseId, rating |-> rating,
   context |-> context, authorization |-> authorization]

RatingInputs ==
  {RatingInput("POST", 1, v, "none", h) :
     v \in RatingValues, h \in {NoHeader, Bearer(1)}}
  \union {RatingInput("POST", c, JsNumber(10), "completion", h) :
            c \in RatingCourseIds, h \in RatingHeaders \ {NoHeader, Bearer(1)}}
  \union {RatingInput("DELETE", c, JsUndefined, "none", h) :
            c \in RatingCourseIds, h \in RatingHeaders}
  \union {RatingInput(m, c, JsUndefined, "none", NoHeader) :
            m \in {"GET", "PUT"}, c \in {1, 3}}

InitRating ==
  /\ courses = <<NewCourse(UrlWatchA), NewCourse(UrlShortC)>>
  /\ questions = {}
  /\ course_segments = <<>>
  /\ progress = <<>>
  /\ orchestrated = {}
  /\ req = [r \in Requests |-> IdleRequest]
  /\ inv = [i \in Invocations |-> IdleInvocation]
  /\ ratings = {}
  /\ ratingReq = [q \in RatingRequests |-> IdleRatingRequest]
  /\ page = IdlePage
  /\ progressKeyUnique = TRUE

NextRating ==
  \/ \E q \in RatingRequests, in \in RatingInputs : RatingReceive(q, in)
  \/ \E q \in RatingRequests : RatingGetUser(q)
  \/ \E q \in RatingRequests : RatingSelectCourse(q)
  \/ \E q \in RatingRequests : RatingUpsert(q)
  \/ \E q \in RatingRequests : RatingSelectStats(q)
  \/ \E q \in RatingRequests : RatingDelete(q)
  \/ \E q \in RatingRequests : RatingReturn(q)

SpecRating == InitRating /\ [][NextRating]_vars

\* the ratings the endpoint accepts: the numbers 1, 2, 3, 4 and 5
IntegerOneToFive == {JsNumber(2 * n) : n \in 1..5}

\* request q takes the step, and the request as the handler reads it
Acting(q) == ratingReq'[q] # ratingReq[q]
Handled(q) == IF ratingReq[q].pc = "idle" THEN ratingReq'[q] ELSE ratingReq[q]

\* C10: a POST to the rating endpoint stores a rating only if it is an
\* integer from 1 to 5: every stored rating is such an integer, and a POST
\* with any other rating (missing, 0, 6, a fraction, a text) is answered 400
\* and no step of it changes user_course_ratings, whatever the Authorization
\* header is.
C10_OnlyIntegerRatingsStored ==
  /\ [](\A row \in ratings : row.rating \in IntegerOneToFive)
  /\ [](\A q \in RatingRequests :
          (/\ ratingReq[q].pc # "idle" /\ ratingReq[q].method = "POST"
           /\ ratingReq[q].rating \notin IntegerOneToFive) =>
            /\ ratingReq[q].pc = "done"
            /\ ratingReq[q].res.status = 400 /\ ~ratingReq[q].res.success)
  /\ [][\A q \in RatingRequests :
          (/\ Acting(q) /\ Handled(q).method = "POST"
           /\ Handled(q).rating \notin IntegerOneToFive) =>
            ratings' = ratings]_vars

\* user 1, who has rated course 1, posts 2.5 with a valid token: 400, and the
\* earlier rating is still the stored one
C10_Witness ==
  \E q \in RatingRequests :
    /\ ratingReq[q].pc = "done" /\ ratingReq[q].method = "POST"
    /\ ratingReq[q].courseId = 1
    /\ ratingReq[q].authorization = Bearer(1)
    /\ ratingReq[q].rating = JsNumber(5)
    /\ ratingReq[q].res.status = 400
    /\ RatingRow(1, 1, JsNumber(10), "none") \in ratings


\* the request carries a Bearer token of a user
Authenticated(rq) ==
  rq.authorization.scheme = "Bearer" /\ rq.authorization.token \in Users

\* C11: ratings require authentication. A POST with a valid rating, or a
\* DELETE, for a course id, that carries no Bearer token or a token of no
\* user is answered 401 (a DELETE whose getUser call throws is answered 500
\* by the catch), and no step of such a request changes user_course_ratings.
C11_RatingsRequireAuthentication ==
  /\ [](\A q \in RatingRequests :
          (/\ ratingReq[q].pc = "done" /\ ratingReq[q].courseId # 0
           /\ ~Authenticated(ratingReq[q])
           /\ \/ /\ ratingReq[q].method = "POST"
                 /\ ratingReq[q].rating \in IntegerOneToFive
              \/ /\ ratingReq[q].method = "DELETE"
                 /\ ratingReq[q].fault # "auth-throw")
          => ratingReq[q].res.status = 401 /\ ~ratingReq[q].res.success)
  /\ [](\A q \in RatingRequests :
          ~Authenticated(ratingReq[q]) =>
            ratingReq[q].pc \notin {"course", "upsert", "delete"})
  /\ [][\A q \in RatingRequests :
          (/\ Acting(q) /\ Handled(q).method \in {"POST", "DELETE"}
           /\ ~Authenticated(Handled(q)))
          => ratings' = ratings]_vars

\* a DELETE with a token of no user for course 1, which user 1 has rated:
\* 401, and the rating is still there
C11_Witness ==
  \E q \in RatingRequests :
    /\ ratingReq[q].pc = "done" /\ ratingReq[q].method = "DELETE"
    /\ ratingReq[q].courseId = 1
    /\ ratingReq[q].authorization = Bearer(0)
    /\ ratingReq[q].fault = "none"
    /\ ratingReq[q].res.status = 401
    /\ \E row \in ratings : SameRatingKey(row, 1, 1)


RatingKeys == Users \X (1..3)

RatingsOf(table, user_id, course_id) ==
  {x \in table : SameRatingKey(x, user_id, course_id)}

\* request q has just upserted the rating of user k[1] for course k[2]
RatingStored(q, k) ==
  /\ ratingReq[q].pc = "upsert" /\ ratingReq'[q].pc = "stats"
  /\ ratingReq[q].userId = k[1] /\ ratingReq[q].courseId = k[2]

\* request q has just deleted the rating of user k[1] for course k[2]
RatingDeleted(q, k) ==
  /\ ratingReq[q].pc = "delete" /\ ratingReq'[q].pc = "done"
  /\ ratingReq'[q].res.status = 200
  /\ ratingReq[q].userId = k[1] /\ ratingReq[q].courseId = k[2]

\* C12: user_course_ratings holds at most one row per (user_id, course_id)
\* and only rows of courses that exist; the rows of a key change only in the
\* upsert of a POST of that user for that course, which leaves exactly the
\* row with the posted rating and is followed by the answer 200, or in the
\* delete of a DELETE of that user for that course; a POST that is answered
\* 200 has stored its rating; a valid authenticated POST for a course that
\* does not exist is answered 404 and writes nothing.
C12_OneRatingPerUserAndCourse ==
  /\ [](\A k \in RatingKeys : Cardinality(RatingsOf(ratings, k[1], k[2])) <= 1)
  /\ [](\A row \in ratings : row.course_id \in 1..Len(courses))
  /\ [][\A k \in RatingKeys :
          /\ \A q \in RatingRequests :
               RatingStored(q, k) =>
                 /\ Cardinality(RatingsOf(ratings', k[1], k[2])) = 1
                 /\ \A row \in RatingsOf(ratings', k[1], k[2]) :
                      row.rating = ratingReq[q].rating
          /\ RatingsOf(ratings', k[1], k[2]) # RatingsOf(ratings, k[1], k[2]) =>
               \E q \in RatingRequests : RatingStored(q, k) \/ RatingDeleted(q, k)]_vars
  /\ [](\A q \in RatingRequests :
          /\ ratingReq[q].pc = "stats" /\ ratingReq[q].method = "POST" =>
               ratingReq[q].res.rating = ratingReq[q].rating
          /\ (/\ ratingReq[q].pc = "done" /\ ratingReq[q].method = "POST"
              /\ ratingReq[q].rating \in IntegerOneToFive
              /\ ratingReq[q].res.rating = ratingReq[q].rating) =>
               ratingReq[q].res.status = 200
          /\ (/\ ratingReq[q].pc = "done" /\ ratingReq[q].method = "POST"
              /\ ratingReq[q].res.status = 200) =>
               /\ ratingReq[q].res.rating = ratingReq[q].rating
               /\ Authenticated(ratingReq[q])
               /\ ratingReq[q].userId = ratingReq[q].authorization.token)
  /\ [](\A q \in RatingRequests :
          (/\ ratingReq[q].pc = "done" /\ ratingReq[q].method = "POST"
           /\ ratingReq[q].rating \in IntegerOneToFive
           /\ Authenticated(ratingReq[q])
           /\ ratingReq[q].fault = "none"
           /\ ratingReq[q].courseId \notin 0..Len(courses))
          => ratingReq[q].res.status = 404)
  /\ [][\A q \in RatingRequests :
          (Acting(q) /\ ratingReq'[q].res.status = 404) => ratings' = ratings]_vars

\* user 1 has just rated course 1 with 1: the one row of user 1 for the course
\* holds 1, next to the row of user 2
C12_Witness ==
  \E q \in RatingRequests :
    /\ ratingReq[q].pc = "done" /\ ratingReq[q].method = "POST"
    /\ ratingReq[q].res.status = 200
    /\ ratingReq[q].authorization = Bearer(1) /\ ratingReq[q].courseId = 1
    /\ ratingReq[q].rating = JsNumber(2)
    /\ RatingsOf(ratings, 1, 1) = {RatingRow(1, 1, JsNumber(2), "none")}
    /\ RatingsOf(ratings, 2, 1) = {RatingRow(2, 1, JsNumber(10), "completion")}


\* C13: an authenticated DELETE for course c by user u, when the auth call
\* and the delete succeed, removes the rows of (u, c) and no other row and is
\* answered 200, also when u had no rating for c; no other step of a DELETE
\* changes the table; deleting again from any table changes nothing more.
C13_DeleteRemovesOnlyOwnRating ==
  /\ [][\A q \in RatingRequests :
          (/\ ratingReq[q].pc = "delete" /\ ratingReq'[q].pc = "done"
           /\ ratingReq'[q].fault = "none")
          => /\ ratingReq'[q].res.status = 200 /\ ratingReq'[q].res.success
             /\ ratingReq[q].userId = ratingReq[q].authorization.token
             /\ ratings' = ratings \ RatingsOf(ratings, ratingReq[q].userId,
                                               ratingReq[q].courseId)
             /\ \A k \in RatingKeys :
                  (k[1] # ratingReq[q].userId \/ k[2] # ratingReq[q].courseId)
                    => RatingsOf(ratings', k[1], k[2]) = RatingsOf(ratings, k[1], k[2])]_vars
  /\ [](\A q \in RatingRequests :
          (/\ ratingReq[q].pc = "done" /\ ratingReq[q].method = "DELETE"
           /\ ratingReq[q].courseId # 0 /\ Authenticated(ratingReq[q])
           /\ ratingReq[q].fault = "none")
          => ratingReq[q].res.status = 200 /\ ratingReq[q].res.success)
  /\ [][\A q \in RatingRequests :
          (/\ Acting(q) /\ Handled(q).method = "DELETE"
           /\ ~(ratingReq'[q].pc = "done" /\ ratingReq'[q].res.status = 200))
          => ratings' = ratings]_vars
  /\ [](\A k \in RatingKeys :
          DeleteRating(DeleteRating(ratings, k[1], k[2]), k[1], k[2])
            = DeleteRating(ratings, k[1], k[2]))

\* user 2 deleted their rating of course 1 and got 200; user 1's rating of
\* course 1 and user 2's rating of course 2 are there
C13_Witness ==
  \E q \in RatingRequests :
    /\ ratingReq[q].pc = "done" /\ ratingReq[q].method = "DELETE"
    /\ ratingReq[q].res.status = 200
    /\ ratingReq[q].authorization = Bearer(2) /\ ratingReq[q].courseId = 1
    /\ RatingsOf(ratings, 2, 1) = {}
    /\ RatingsOf(ratings, 1, 1) # {}
    /\ RatingsOf(ratings, 2, 2) # {}


(***************************************************************************)
(* The course player: time updates, seeks, arriving questions, Continue,   *)
(* and the effect that runs checkForQuestions after a render.              *)
(***************************************************************************)
\* last second of the video
MaxPlaybackTime == 4

\* the indexes find() could return: not answered and due
DueQuestions(list, answeredQuestions, currentTime) ==
  {i \in 0..(Len(list) - 1) :
     i \notin answeredQuestions /\ currentTime >= list[i + 1].timestamp}

\* a search that does not look at answeredQuestions
FirstTimedQuestion(list, answeredQuestions, currentTime) ==
  LET due == {i \in 0..(Len(list) - 1) : currentTime >= list[i + 1].timestamp}
  IN  IF due = {} THEN -1 ELSE CHOOSE i \in due : \A j \in due : i <= j

\* questions.find(...) and indexOf: the first index that is due, -1 for none
NextQuestionIndex(list, answeredQuestions, currentTime) ==
  LET due == DueQuestions(list, answeredQuestions, currentTime)
  IN  IF due = {} THEN -1 ELSE CHOOSE i \in due : \A j \in due : i <= j

\* checkForQuestions
checkForQuestions(pg) ==
  LET next == NextQuestionIndex(pg.questions, pg.answeredQuestions, pg.currentTime)
  IN  IF pg.showQuestion \/ Len(pg.questions) = 0 \/ next = -1 THEN pg
      ELSE [pg EXCEPT !.currentQuestionIndex = next, !.showQuestion = TRUE,
                      !.playing = FALSE]

PageFrame ==
  UNCHANGED <<courses, questions, course_segments, progress, orchestrated,
              req, inv, ratings, ratingReq, progressKeyUnique>>

\* the effect on [currentTime, questions, currentQuestionIndex,
\* answeredQuestions]; it runs before the next event is handled
PageEffect ==
  /\ page.effect
  /\ page' = IF page.player /\ Len(page.questions) > 0
             THEN [checkForQuestions(page) EXCEPT !.effect = FALSE]
             ELSE [page EXCEPT !.effect = FALSE]
  /\ PageFrame

\* the YouTube player has been created
PlayerReady ==
  /\ ~page.effect /\ ~page.player
  /\ page' = [page EXCEPT !.player = TRUE]
  /\ PageFrame

\* the viewer starts the video in the player
PlayVideo ==
  /\ ~page.effect /\ page.player /\ ~page.playing
  /\ page' = [page EXCEPT !.playing = TRUE]
  /\ PageFrame

\* the player reports the next second
TimeUpdate ==
  /\ ~page.effect /\ page.player /\ page.playing
  /\ page.currentTime < MaxPlaybackTime
  /\ page' = [page EXCEPT !.currentTime = @ + 1, !.effect = TRUE]
  /\ PageFrame

\* calls of handleVideoSeek that may wait at the same time
MaxPendingSeeks == 2

\* questionsInRange (lines 546-556): the unanswered questions a forward seek
\* jumps over
questionsInRange(pg, seekTime) ==
  {i \in 0..(Len(pg.questions) - 1) :
     /\ seekTime > pg.currentTime
     /\ pg.questions[i + 1].timestamp > pg.currentTime
     /\ pg.questions[i + 1].timestamp <= seekTime
     /\ i \notin pg.answeredQuestions}

\* setSkippedQuestions(newSkippedQuestions) and seekTo(seekTime) (lines
\* 593-597); the effect runs again when the time has changed
SeekNow(pg, newSkippedQuestions, seekTime) ==
  [pg EXCEPT !.skippedQuestions = newSkippedQuestions,
             !.currentTime = seekTime,
             !.effect = (seekTime # pg.currentTime)]

\* handleVideoSeek is called (lines 523-597). With no question in range the
\* video is sought at once; for a viewer who is not logged in the questions
\* in range are added to the skipped ones and the video is sought, all
\* before the call returns; for a logged-in viewer the call returns at its
\* first await (line 568) with nothing changed, holding the seek time and
\* the set computed from the skippedQuestions of this render (line 561)
handleVideoSeek(seekTime) ==
  /\ ~page.effect /\ page.player
  /\ seekTime # page.currentTime
  /\ LET range == questionsInRange(page, seekTime)
         newSkippedQuestions == page.skippedQuestions \union range
     IN  IF range = {}
         THEN page' = SeekNow(page, page.skippedQuestions, seekTime)
         ELSE IF ~page.user
         THEN page' = SeekNow(page, newSkippedQuestions, seekTime)
         ELSE /\ BagCardinality(page.seeks) < MaxPendingSeeks
              /\ page' = [page EXCEPT !.seeks = @ (+) SetToBag(
                             {[seekTime |-> seekTime,
                               newSkippedQuestions |-> newSkippedQuestions,
                               left |-> Cardinality(range),
                               call |-> "getSession"]})]
  /\ PageFrame

\* pending call seek goes on as call next
SeekGoesOn(pg, seek, next) ==
  [pg EXCEPT !.seeks = (@ (-) SetToBag({seek})) (+) SetToBag({next})]

\* the tracking of one question in range is over (line 590): the loop goes
\* on to the next question, or the call stores its set and seeks
SeekAdvance(pg, seek) ==
  IF seek.left > 1
  THEN SeekGoesOn(pg, seek, [seek EXCEPT !.left = @ - 1, !.call = "getSession"])
  ELSE [SeekNow(pg, seek.newSkippedQuestions, seek.seekTime)
          EXCEPT !.seeks = pg.seeks (-) SetToBag({seek})]

\* supabase.auth.getSession() of a pending call is answered (line 568):
\* with a session the progress request is sent; without one, or when the
\* call throws, the question is not tracked
SeekGetSession(seek, session) ==
  /\ ~page.effect
  /\ BagIn(seek, page.seeks)
  /\ seek.call = "getSession"
  /\ page' = IF session
             THEN SeekGoesOn(page, seek, [seek EXCEPT !.call = "fetch"])
             ELSE SeekAdvance(page, seek)
  /\ PageFrame

\* the fetch of /api/user/progress of a pending call is answered or fails
\* (lines 570-586): its outcome is not looked at
SeekFetch(seek) ==
  /\ ~page.effect
  /\ BagIn(seek, page.seeks)
  /\ seek.call = "fetch"
  /\ page' = SeekAdvance(page, seek)
  /\ PageFrame

\* setQuestions: the questions of the course arrive or are replaced
QuestionsLoaded(list) ==
  /\ ~page.effect
  /\ list # page.questions
  /\ page' = [page EXCEPT !.questions = list, !.effect = TRUE]
  /\ PageFrame

\* handleContinueVideo
handleContinueVideo ==
  /\ ~page.effect /\ page.showQuestion
  \* the overlay with the Continue button is rendered for an existing question
  /\ page.currentQuestionIndex < Len(page.questions)
  /\ LET i == page.currentQuestionIndex
         q == page.questions[i + 1]
         back == page.player /\ q.type = "hotspot" /\ q.frame_timestamp # 0
     IN  page' = [page EXCEPT
                    !.answeredQuestions = @ \union {i},
                    !.showQuestion = FALSE,
                    !.currentTime = IF back THEN q.timestamp ELSE @,
                    !.playing = page.player,
                    !.effect = TRUE]
  /\ PageFrame


\* question lists: in time order, out of time order, and with a hotspot
\* question and equal timestamps
QuestionLists ==
  {<<Question(1, "multiple-choice", 0), Question(3, "true-false", 0)>>,
   <<Question(3, "multiple-choice", 0), Question(1, "true-false", 0)>>,
   <<Question(2, "hotspot", 4), Question(2, "multiple-choice", 0)>>}

InitPlayer ==
  /\ courses = <<NewCourse(UrlWatchA)>>
  /\ questions = {1}
  /\ course_segments = <<>>
  /\ progress = <<>>
  /\ orchestrated = {}
  /\ req = [r \in Requests |-> IdleRequest]
  /\ inv = [i \in Invocations |-> IdleInvocation]
  /\ ratings = {}
  /\ ratingReq = [q \in RatingRequests |-> IdleRatingRequest]
  /\ \E user \in BOOLEAN : page = [IdlePage EXCEPT !.user = user]
  /\ progressKeyUnique = TRUE

NextPlayer ==
  \/ PageEffect
  \/ PlayerReady
  \/ PlayVideo
  \/ TimeUpdate
  \/ \E seekTime \in 0..MaxPlaybackTime : handleVideoSeek(seekTime)
  \/ \E seek \in BagToSet(page.seeks), session \in BOOLEAN :
       SeekGetSession(seek, session)
  \/ \E seek \in BagToSet(page.seeks) : SeekFetch(seek)
  \/ \E list \in QuestionLists : QuestionsLoaded(list)
  \/ handleContinueVideo

SpecPlayer == InitPlayer /\ [][NextPlayer]_vars

\* C14: a question is put on show only if it is not in answeredQuestions and
\* its timestamp is at most the current playback time, it is the one of
\* lowest index among those, and the video is paused by that step; while a
\* question is showing the selected index does not change, and the question
\* showing is never an answered one.
C14_OverlayOnlyForDueUnansweredQuestion ==
  /\ [][(~page.showQuestion /\ page'.showQuestion) =>
          LET i == page'.currentQuestionIndex
          IN  /\ i \in 0..(Len(page'.questions) - 1)
              /\ i \notin page'.answeredQuestions
              /\ page'.questions[i + 1].timestamp <= page'.currentTime
              /\ \A j \in 0..(i - 1) :
                   \/ j \in page'.answeredQuestions
                   \/ page'.questions[j + 1].timestamp > page'.currentTime
              /\ ~page'.playing]_vars
  /\ [][(page.showQuestion /\ page'.showQuestion) =>
          page'.currentQuestionIndex = page.currentQuestionIndex]_vars
  /\ [](page.showQuestion => page.currentQuestionIndex \notin page.answeredQuestions)

\* both questions of the list are due and question 0 was answered: question
\* 1 is showing and the video is paused
C14_Witness ==
  /\ page.showQuestion /\ ~page.effect
  /\ page.currentQuestionIndex = 1
  /\ page.answeredQuestions = {0}
  /\ Len(page.questions) = 2
  /\ \A i \in 1..2 : page.questions[i].timestamp <= page.currentTime
  /\ ~page.playing


\* C15: when the init call throws an error other than the abort, after the
\* progress record of (course, session) was initialized, the handler answers
\* 500 and leaves that progress record in stage 'failed', also when the
\* course was created by this request.
C15_UnexpectedErrorMarksFailed ==
  [][\A r \in Requests :
       (req[r].pc = "await" /\ req'[r].pc = "done" /\ req'[r].got = "error") =>
         /\ req'[r].res.status = 500
         /\ \E k \in 1..Len(progress') :
              /\ progress'[k].course_id = req[r].cid
              /\ progress'[k].session_id = req[r].session_id
              /\ progress'[k].stage = "failed"]_vars

\* a request without course_id created course 1, its init call threw, it
\* answered 500, and the progress record of the pair is still at
\* 'initialization' 0.0
C15_Witness ==
  \E r \in Requests :
    /\ req[r].pc = "done" /\ req[r].got = "error"
    /\ req[r].course_id = 0 /\ req[r].cid # 0
    /\ req[r].res.status = 500
    /\ \E k \in 1..Len(progress) :
         /\ progress[k].course_id = req[r].cid
         /\ progress[k].session_id = req[r].session_id
         /\ progress[k].stage = "initialization"
         /\ progress[k].overall_progress = ProgressStart


\* the number of course_segments rows of a course
SegmentRowCount(course_id) ==
  Cardinality({k \in 1..Len(course_segments) : course_segments[k].course_id = course_id})

\* C16: when init-segmented-processing has answered success for a segmented
\* video, total_segments of the course row equals the number of
\* course_segments rows the call created, total_segments of the response and
\* the length of segments in the response.
C16_StoredSegmentCountMatches ==
  \A i \in Invocations :
    (/\ inv[i].pc = "done" /\ inv[i].res.status = 200 /\ inv[i].res.segmented
     /\ inv[i].course_id \in 1..Len(courses)) =>
      /\ courses[inv[i].course_id].total_segments = Len(inv[i].createdSegments)
      /\ inv[i].res.total_segments = Len(inv[i].createdSegments)
      /\ Len(inv[i].res.segments) = Len(inv[i].createdSegments)

\* a success answer with fewer segments than the course row says: the short
\* last segment was merged and the update of the count did not go through
C16_Witness ==
  \E i \in Invocations :
    /\ inv[i].pc = "done" /\ inv[i].res.status = 200 /\ inv[i].res.segmented
    /\ inv[i].course_id \in 1..Len(courses)
    /\ inv[i].res.total_segments = Len(inv[i].createdSegments)
    /\ SegmentRowCount(inv[i].course_id) = Len(inv[i].createdSegments)
    /\ courses[inv[i].course_id].total_segments = inv[i].res.total_segments + 1


\* C17 as stated: a request whose hand-off timed out has sent the hand-off
\* again, so more than once.
C17_RetryOnTimeout ==
  \A r \in Requests : req[r].got = "abort" => req[r].initCalls >= 2

\* C17, amended: the hand-off is sent at most once per analyze request; a
\* timeout ends the request at once, with one hand-off sent, answer 200 and
\* background_processing; the step of the timeout leaves the init invocation
\* as it is, to run on, and a finished request sends nothing more.
C17_NoRetryAfterTimeout ==
  /\ [](\A r \in Requests :
          /\ req[r].initCalls <= 1
          /\ req[r].got = "abort" =>
               /\ req[r].pc = "done" /\ req[r].initCalls = 1
               /\ req[r].res.status = 200 /\ req[r].res.background_processing)
  /\ [][\A r \in Requests :
          /\ req[r].pc = "done" => req'[r] = req[r]
          /\ (req[r].pc = "await" /\ req'[r].got = "abort") => inv' = inv]_vars

\* a request that timed out while its only init invocation is still running
C17_Witness ==
  \E r \in Requests :
    /\ req[r].got = "abort" /\ req[r].pc = "done"
    /\ req[r].initCalls = 1
    /\ inv[r].pc \notin {"idle", "done"}


\* the invocation runs with the default request parameters and the API gave
\* a positive duration
DefaultRequest(i) ==
  /\ inv[i].segment_duration = DefaultSegmentDuration
  /\ inv[i].max_questions_per_segment = DefaultMaxQuestions
  /\ DurationObtained(i) /\ inv[i].videoDuration.seconds > 0

\* C18 as stated: with the default request parameters a video of known
\* duration of at most SEGMENT_THRESHOLD seconds is not segmented and gets
\* one segment.
C18_NoSplitUpToThreshold ==
  \A i \in Invocations :
    (/\ SegmentsCreated(i) /\ DefaultRequest(i)
     /\ inv[i].videoDuration.seconds <= SEGMENT_THRESHOLD) =>
      ~inv[i].shouldSegment /\ Len(inv[i].createdSegments) = 1

\* C18, amended: with the default request parameters the limit is the
\* default segment_duration of 300 seconds: a video of known duration up to
\* 300 s is one unsegmented segment, a longer one is segmented, and from 320 s
\* on it has several segments.
C18_SplitOverDefaultSegmentDuration ==
  \A i \in Invocations :
    (SegmentsCreated(i) /\ DefaultRequest(i)) =>
      /\ inv[i].videoDuration.seconds <= DefaultSegmentDuration =>
           ~inv[i].shouldSegment /\ SingleSegment(i)
      /\ inv[i].videoDuration.seconds > DefaultSegmentDuration =>
           inv[i].shouldSegment
      /\ inv[i].videoDuration.seconds >= DefaultSegmentDuration + ShortSegmentLimit =>
           Len(inv[i].createdSegments) >= 2
      /\ Answered(i) => (inv[i].res.segmented <=>
                           inv[i].videoDuration.seconds > DefaultSegmentDuration)

\* a video of exactly 600 s, with the default parameters, answered as
\* segmented with two segments
C18_Witness ==
  \E i \in Invocations :
    /\ Answered(i) /\ DefaultRequest(i)
    /\ inv[i].videoDuration.seconds = SEGMENT_THRESHOLD
    /\ inv[i].res.segmented /\ inv[i].res.total_segments = 2


\* request r is past the course creation step and was not answered from the
\* cache
PastCreation(r) ==
  \/ req[r].pc \in {"handoff", "await"}
  \/ req[r].pc = "done" /\ req[r].got # "none"

\* C19: a valid analyze request without course_id that is not answered from
\* the cache, and whose insert the database accepts, inserts exactly one
\* course record, unpublished and with the sanitized URL; a request with a
\* course_id and a request answered from the cache insert none; so two
\* requests that each inserted have two distinct course records, also for
\* the same video.
C19_OneCourseInsertPerUncachedRequest ==
  /\ [](\A r \in Requests :
          /\ req[r].courseInserts <= 1
          /\ req[r].course_id # 0 => req[r].courseInserts = 0
          /\ req[r].res.cached => req[r].courseInserts = 0
          /\ (req[r].course_id = 0 /\ PastCreation(r)) => req[r].courseInserts = 1
          /\ req[r].courseInserts = 1 =>
               /\ req[r].cid \in 1..Len(courses)
               /\ ~courses[req[r].cid].published
               /\ courses[req[r].cid].youtube_url = sanitizeYouTubeUrl(req[r].youtube_url))
  /\ [](\A r1, r2 \in Requests :
          (r1 # r2 /\ req[r1].courseInserts = 1 /\ req[r2].courseInserts = 1) =>
            req[r1].cid # req[r2].cid)
  /\ [][\A r \in Requests :
          /\ (req[r].pc = "create" /\ req'[r].pc = "handoff") =>
               /\ Len(courses') = Len(courses) + 1
               /\ SubSeq(courses', 1, Len(courses)) = courses
          /\ (InCacheCheck(r) /\ req'[r].pc = "done") => courses' = courses]_vars
  /\ [][Len(courses') # Len(courses) =>
          \E r \in Requests : req[r].pc = "create" /\ req'[r].pc = "handoff"]_vars

\* two requests for the same video, written in two ways, one of them with
\* the cache enabled, have left two course records with the same URL while
\* the video has no questions
C19_Witness ==
  \E r1, r2 \in Requests :
    /\ req[r1].youtube_url = UrlWatchAT /\ req[r2].youtube_url = UrlShortA
    /\ req[r1].useCache
    /\ req[r1].courseInserts = 1 /\ req[r2].courseInserts = 1
    /\ req[r1].cid # req[r2].cid
    /\ courses[req[r1].cid].youtube_url = courses[req[r2].cid].youtube_url
    /\ Len(courses) = 2 /\ questions = {}


\* the second progress write a request may make
FurtherWrites ==
  {WriteOf("failed", ProgressFailed), WriteOf("initialization", ProgressRunning),
   WriteOf("planning", ProgressRunning)}

\* the progress writes of the requests are as C20 says
WritesInOrder ==
  \A r \in Requests :
    /\ (req[r].initCalls > 0 \/ inv[r].pc # "idle") =>
         /\ Len(req[r].writes) \in 1..2
         /\ req[r].writes[1] = WriteOf("initialization", ProgressStart)
    /\ req[r].initCalls = 0 => req[r].writes = <<>>
    /\ Len(req[r].writes) = 2 =>
         /\ req[r].writes[2] \in FurtherWrites
         /\ req[r].writes[1].overall_progress <= req[r].writes[2].overall_progress
         /\ req[r].pc = "done"
         /\ req[r].writes[2].stage = "failed" <=> req[r].res.status = 500
         /\ req[r].writes[2].stage = "initialization" <=> req[r].res.background_processing
         /\ req[r].writes[2].stage = "planning" <=> req[r].res.segmented
    /\ (/\ req[r].pc = "done" /\ req[r].got = "answer"
        /\ req[r].res.status = 200 /\ ~req[r].res.segmented) =>
         Len(req[r].writes) = 1
    /\ (req[r].pc = "done" /\ req[r].res.segmented) => Len(req[r].writes) = 2
    /\ (req[r].pc = "done" /\ req[r].got = "abort") => Len(req[r].writes) = 2

\* C20: a request that has reached the hand-off has issued the write
\* 'initialization' at 0.0 first, not later than the init call, and at most
\* one further progress write: 'failed' at 0.05 for a 500 answer,
\* 'initialization' at 0.1 for a timeout, 'planning' at 0.1 for a segmented
\* video; overall_progress never decreases, and a success that is not
\* segmented has written nothing more. The writes are the upserts the
\* handler issues: the database's answer to each is on record, a write it
\* rejects changes nothing, a write it accepts puts the values written into
\* the one row of the pair, and the handler changes the table in no other
\* step, so the writes that take effect are among these, in this order.
C20_ProgressWritesInOrder ==
  /\ [](WritesInOrder /\ \A r \in Requests : Len(req[r].rejected) = Len(req[r].writes))
  /\ [][\A r \in Requests :
          /\ IssuesWrite(r) => WriteTakesEffect(r)
          /\ (req'[r] # req[r] /\ progress' # progress) => IssuesWrite(r)
          /\ Len(req'[r].writes) # Len(req[r].writes) => IssuesWrite(r)
          /\ IssuesWrite(r) => SubSeq(req'[r].writes, 1, Len(req[r].writes)) = req[r].writes]_vars

\* one request answered for a segmented video after two writes that the
\* database accepted, the other for a video that was not segmented after one
C20_Witness ==
  \E r1, r2 \in Requests :
    /\ req[r1].pc = "done" /\ req[r1].res.segmented
    /\ ~req[r1].rejected[1] /\ ~req[r1].rejected[2]
    /\ req[r1].writes = <<WriteOf("initialization", ProgressStart),
                          WriteOf("planning", ProgressRunning)>>
    /\ req[r2].pc = "done" /\ req[r2].got = "answer"
    /\ req[r2].res.status = 200 /\ ~req[r2].res.segmented
    /\ req[r2].writes = <<WriteOf("initialization", ProgressStart)>>

====
